---- MODULE Spec2Model ----
(***************************************************************************)
(* A model of wiktionary-hatsuon: the wikitext template scanner and        *)
(* parameter splitter (src/src/wikitext.rs), the kana engine               *)
(* (src/src/ja.rs) and the decomposition / accent inference                *)
(* (src/src/infer.rs).                                                     *)
(*                                                                         *)
(* A string is a sequence of Unicode code points.  Rust strings are UTF-8  *)
(* and the scanners mix byte offsets (char_indices, find, slicing) with    *)
(* character counts, so byte offsets are computed from len_utf8 and every  *)
(* slice is checked to lie on character boundaries (a slice that does not  *)
(* panics in Rust).                                                        *)
(***************************************************************************)
EXTENDS Integers, Sequences, FiniteSets, TLC

VARIABLES
    ft,         \* the FindTemplates iterator (wikitext.rs:2-9)
    ft_items,   \* the pairs the consumer of the iterator has received so far
    ft_ret,     \* what the last call of FindTemplates::next returned
    ft_nones,   \* how many calls of FindTemplates::next have returned None
    ft_panic,   \* a call of FindTemplates::next panicked
    tp,         \* the TemplateParameters iterator (wikitext.rs:92-99)
    tp_items,   \* the parameters the consumer has received so far
    tp_ret,     \* what the last call of TemplateParameters::next returned
    tp_nones,   \* how many calls of TemplateParameters::next have returned None
    tp_panic,   \* a call of TemplateParameters::next panicked
    k_in,       \* the arguments of try_katakanify: reading, should_ignore, should_keep
    k_pc,       \* which kana function has been applied last
    k_norm,     \* what try_katakanify returned
    k_out,      \* what the function applied to the normalized string returned
    d_in,       \* the arguments of infer_decompositions: title, ja_kanjitab, readings
    d_pc,       \* how far infer_decompositions has come
    d_atoms,    \* atoms (infer.rs:56)
    d_result,   \* what infer_decompositions returned: Ok, an error, or an abort
    d_repl,     \* replacements, as align returned them (infer.rs:114)
    d_reading,  \* DecompositionInfo::reading() of the value returned
    a_in,       \* the arguments of infer_accent: title, ja_pron
    a_pc,       \* how far infer_accent has come
    a_readings, \* readings, resized (infer.rs:200-216)
    a_accents,  \* accents, resized (infer.rs:214-217)
    a_last,     \* last_reading (infer.rs:220)
    a_i,        \* how many indices the loop of infer.rs:223 has handled
    a_infos,    \* accent_infos (infer.rs:222)
    m_info,     \* info, the accumulation table of main (main.rs:22)
    m_redirects, \* redirects (main.rs:23), those not yet resolved
    m_pc,       \* how far main has come
    m_count     \* how many times process has been called

ftVars == <<ft, ft_items, ft_ret, ft_nones, ft_panic>>
tpVars == <<tp, tp_items, tp_ret, tp_nones, tp_panic>>

kVars == <<k_in, k_pc, k_norm, k_out>>

dVars == <<d_in, d_pc, d_atoms, d_result, d_repl, d_reading>>

aVars == <<a_in, a_pc, a_readings, a_accents, a_last, a_i, a_infos>>

mVars == <<m_info, m_redirects, m_pc, m_count>>

vars == <<ftVars, tpVars, kVars, dVars, aVars, mVars>>

(***************************************************************************)
(* Bounds of the model.                                                    *)
(***************************************************************************)
MaxDocLen == 6      \* documents of every shape over the brace alphabet
MaxPieces == 4      \* documents made of markup pieces (with comments, wide chars)
MaxAfter == 2       \* calls of next made after the iterator first returned None
MaxBlobLen == 5     \* argument blobs of every shape over the splitter's alphabet
MaxBlobPieces == 4  \* argument blobs made of markup pieces
MaxReadingLen == 3  \* readings over the kana alphabet
MaxMarkLen == 4     \* readings over the iteration-mark alphabet
MaxTitleLen == 2    \* characters of a title over the title alphabet
MaxCells == 2       \* reading cells of a kanji table
MaxPronLen == 3     \* reading cells of a pronunciation record
MaxArticles == 2    \* calls of process before the input ends

(***************************************************************************)
(* Characters.                                                             *)
(***************************************************************************)
LBRACE == 123       \* '{'
RBRACE == 125       \* '}'
PIPE == 124         \* '|'
LT == 60            \* '<'
BANG == 33          \* '!'
HYPHEN == 45        \* '-'
GT == 62            \* '>'
LBRACKET == 91      \* '['
RBRACKET == 93      \* ']'
LetterA == 97       \* 'a', any character that is not markup
HiraA == 12354      \* U+3042, a three-byte character

None == [some |-> FALSE]
Some(v) == [some |-> TRUE, val |-> v]

(***************************************************************************)
(* UTF-8 strings: byte offsets, slices, find.                              *)
(***************************************************************************)
len_utf8(c) ==
    IF c < 128 THEN 1 ELSE IF c < 2048 THEN 2 ELSE IF c < 65536 THEN 3 ELSE 4

RECURSIVE ByteOff(_, _)
\* the byte offset of the character that follows the first k characters of s
ByteOff(s, k) == IF k = 0 THEN 0 ELSE ByteOff(s, k - 1) + len_utf8(s[k])

\* s.len(), in bytes
StrLen(s) == ByteOff(s, Len(s))

IsCharBoundary(s, b) == \E k \in 0..Len(s) : ByteOff(s, k) = b

CharsBefore(s, b) == CHOOSE k \in 0..Len(s) : ByteOff(s, k) = b

\* &s[a..b] panics unless a <= b <= s.len() and both lie on a character boundary
SliceOk(s, a, b) ==
    a <= b /\ b <= StrLen(s) /\ IsCharBoundary(s, a) /\ IsCharBoundary(s, b)

Slice(s, a, b) == SubSeq(s, CharsBefore(s, a) + 1, CharsBefore(s, b))

IsPrefixAt(s, k, pat) ==
    /\ k + Len(pat) <= Len(s)
    /\ \A j \in 1..Len(pat) : s[k + j] = pat[j]

\* str::find: the byte offset of the first occurrence of pat in s, -1 for None
Find(s, pat) ==
    IF \E k \in 0..Len(s) : IsPrefixAt(s, k, pat)
    THEN ByteOff(s, CHOOSE k \in 0..Len(s) :
                        /\ IsPrefixAt(s, k, pat)
                        /\ \A j \in 0..(k - 1) : ~IsPrefixAt(s, j, pat))
    ELSE -1

RECURSIVE Concat(_)
Concat(ss) == IF ss = <<>> THEN <<>> ELSE Head(ss) \o Concat(Tail(ss))

SeqsUpTo(S, n) == UNION {[1..k -> S] : k \in 0..n}

\* try_consume on a clone of the iterator: do the next characters equal peek?
\* (ci is the number of characters char_indices has already yielded)
try_consume(s, ci, peek) == IsPrefixAt(s, ci, peek)

(***************************************************************************)
(* FindTemplates (wikitext.rs:2-89).                                       *)
(***************************************************************************)
FindTemplates_new(s) ==
    [s |-> s, char_indices |-> 0, name |-> <<>>, start |-> 0, depth |-> 0,
     is_invalid |-> FALSE]

Returned(f, r, how) == [self |-> f, ret |-> r, how |-> how, panic |-> FALSE]
Panicked(f) == [self |-> f, ret |-> None, how |-> "panic", panic |-> TRUE]

\* wikitext.rs:37-63, the arm of "{{": i is the byte offset of the first brace
\* and ci the number of characters consumed, both braces included.
RECURSIVE FindTemplates_loop(_)
FindTemplates_open(f, i, ci) ==
    IF f.depth # 0
    THEN FindTemplates_loop([f EXCEPT !.char_indices = ci, !.depth = @ + 1])
    ELSE
    IF ~SliceOk(f.s, i + 2, StrLen(f.s)) THEN Panicked(f) ELSE
    LET rest == Slice(f.s, i + 2, StrLen(f.s))
        limit == Find(rest, <<RBRACE, RBRACE>>)
        bar == IF limit = -1 THEN -1 ELSE Find(Slice(rest, 0, limit), <<PIPE>>)
    IN  IF limit = -1
        THEN Returned([f EXCEPT !.char_indices = ci, !.is_invalid = TRUE],
                      None, "unclosed")
        ELSE IF bar = -1
        THEN \* "{{name}}": lines 47-53
             LET count == Len(Slice(f.s, i + 2, i + 2 + limit)) + 2
                 end == i + 2 + limit
             IN  Returned([f EXCEPT !.char_indices = IF ci + count > Len(f.s)
                                                      THEN Len(f.s) ELSE ci + count,
                                    !.start = end + 1],
                          Some(<<Slice(f.s, i + 2, end), <<>>>>), "bare")
        ELSE \* "{{name|": lines 55-62
             LET count == Len(Slice(f.s, i + 2, i + 2 + bar)) + len_utf8(PIPE)
                 end == i + 2 + bar
             IN  FindTemplates_loop(
                     [f EXCEPT !.char_indices = IF ci + count > Len(f.s)
                                                THEN Len(f.s) ELSE ci + count,
                               !.name = Slice(f.s, i + 2, end),
                               !.start = end + 1,
                               !.depth = @ + 1])

\* wikitext.rs:74-82, the arm of "<!--": skip to the character after "-->"
\* (-1 when the comment is not terminated)
RECURSIVE SkipComment(_, _)
SkipComment(s, ci) ==
    IF ci >= Len(s) THEN -1
    ELSE IF s[ci + 1] = HYPHEN /\ try_consume(s, ci + 1, <<HYPHEN, GT>>)
         THEN ci + 3
         ELSE SkipComment(s, ci + 1)

\* wikitext.rs:25-87, the loop of next
FindTemplates_loop(f) ==
    IF f.char_indices >= Len(f.s) THEN Returned(f, None, "end")
    ELSE
    LET i == ByteOff(f.s, f.char_indices)
        c == f.s[f.char_indices + 1]
        ci == f.char_indices + 1
    IN  IF c = LBRACE /\ try_consume(f.s, ci, <<LBRACE, LBRACE>>)
        THEN FindTemplates_loop([f EXCEPT !.char_indices = ci + 2, !.depth = @ + 1])
        ELSE IF c = RBRACE /\ try_consume(f.s, ci, <<RBRACE, RBRACE>>)
        THEN IF f.depth = 0
             THEN Returned([f EXCEPT !.char_indices = ci + 2, !.is_invalid = TRUE],
                           None, "underflow")
             ELSE FindTemplates_loop(
                      [f EXCEPT !.char_indices = ci + 2, !.depth = @ - 1])
        ELSE IF c = LBRACE /\ try_consume(f.s, ci, <<LBRACE>>)
        THEN FindTemplates_open(f, i, ci + 1)
        ELSE IF c = RBRACE /\ try_consume(f.s, ci, <<RBRACE>>)
        THEN IF f.depth = 0
             THEN Returned([f EXCEPT !.char_indices = ci + 1, !.is_invalid = TRUE],
                           None, "underflow")
             ELSE IF f.depth = 1
             THEN IF SliceOk(f.s, f.start, i)
                  THEN Returned([f EXCEPT !.char_indices = ci + 1, !.depth = 0],
                                Some(<<f.name, Slice(f.s, f.start, i)>>), "closed")
                  ELSE Panicked([f EXCEPT !.char_indices = ci + 1, !.depth = 0])
             ELSE FindTemplates_loop(
                      [f EXCEPT !.char_indices = ci + 1, !.depth = @ - 1])
        ELSE IF c = LT /\ try_consume(f.s, ci, <<BANG, HYPHEN, HYPHEN>>)
        THEN LET after == SkipComment(f.s, ci + 3)
             IN  IF after = -1
                 THEN Returned([f EXCEPT !.char_indices = Len(f.s),
                                         !.is_invalid = TRUE], None, "comment")
                 ELSE FindTemplates_loop([f EXCEPT !.char_indices = after])
        ELSE FindTemplates_loop([f EXCEPT !.char_indices = ci])

\* FindTemplates::next without the is_invalid latch of lines 21-23
FindTemplates_next_unlatched(f) == FindTemplates_loop(f)

\* wikitext.rs:20-88, FindTemplates::next
FindTemplates_next(f) ==
    IF f.is_invalid THEN Returned(f, None, "invalid") ELSE FindTemplates_loop(f)

(***************************************************************************)
(* The kana engine (ja.rs).                                                *)
(***************************************************************************)
\* a panic: unimplemented!(), a failed assert!, unwrap() of None
Abort == [some |-> FALSE, abort |-> TRUE]
IsAbort(r) == "abort" \in DOMAIN r

\* ja.rs:3-18
is_ideograph(c) ==
    \/ c \in 19968..40959        \* U+4E00..U+9FFF
    \/ c \in 13312..19903        \* U+3400..U+4DBF
    \/ c \in 131072..173791      \* U+20000..U+2A6DF
    \/ c \in 173824..191471      \* U+2A700..U+2EBEF
    \/ c \in 196608..201551      \* U+30000..U+3134F
    \/ c \in 63744..64255        \* U+F900..U+FAFF
    \/ c = 12293                 \* U+3005

\* char::is_whitespace (the White_Space characters)
is_whitespace(c) ==
    \/ c \in 9..13
    \/ c \in {32, 133, 160, 5760, 8232, 8233, 8239, 8287, 12288}
    \/ c \in 8192..8202

\* infer.rs:189-191
reading_ignore(c) == c \in {46, 37, 45, 12448, 12539} \/ is_whitespace(c)

\* infer.rs:171-173
pos_reading_ignore(c) ==
    c \in {46, 37, 45, 8208, 12448, 12539, 94, 39} \/ is_whitespace(c)

\* infer.rs:59, the title's should_ignore
title_ignore(c) == c \in {45, 12289}

\* A predicate passed to try_katakanify: one of the program's closures, by
\* name, or the characteristic function of a set of characters.
Closure(name) == [name |-> name, set |-> {}]
SetOf(S) == [name |-> "set", set |-> S]

Holds(p, c) ==
    CASE p.name = "never" -> FALSE
      [] p.name = "is_ideograph" -> is_ideograph(c)
      [] p.name = "is_whitespace" -> is_whitespace(c)
      [] p.name = "reading_ignore" -> reading_ignore(c)
      [] p.name = "pos_reading_ignore" -> pos_reading_ignore(c)
      [] p.name = "title_ignore" -> title_ignore(c)
      [] OTHER -> c \in p.set

\* ja.rs:33-42, the characters that start a kana cluster
IsKanaStart(c) ==
    \/ c \in 12353..12438        \* HIRA_0 U+3041..U+3096
    \/ c \in 12445..12447        \* HIRA_1 U+309D..U+309F
    \/ c \in 12449..12538        \* KATA_0 U+30A1..U+30FA
    \/ c \in 12540..12543        \* KATA_1 U+30FC..U+30FF
    \/ c = 110898                \* SMALL_HIRA_KO U+1B132
    \/ c = 110933                \* SMALL_KATA_KO U+1B155
    \/ c \in 110928..110930      \* SMALL_HIRA_WIEO U+1B150..U+1B152
    \/ c \in 110948..110951      \* SMALL_KATA_WIEO U+1B164..U+1B167
    \/ c = 110593                \* HIRA_YE U+1B001
    \/ c = 110881                \* KATA_YE U+1B121

\* ja.rs:30
IsCombiningSoundMark(c) == c \in 12441..12442   \* U+3099..U+309A

\* ja.rs:45-47: how many combining sound marks follow the first p characters
RECURSIVE CombiningRun(_, _)
CombiningRun(s, p) ==
    IF p < Len(s) /\ IsCombiningSoundMark(s[p + 1])
    THEN 1 + CombiningRun(s, p + 1) ELSE 0

\* ja.rs:32-52: c is the character s[p], chars stands after it.  None, or the
\* cluster and the number of characters the cluster takes from s.
try_consume_kana(s, p) ==
    IF IsKanaStart(s[p])
    THEN Some(SubSeq(s, p, p + CombiningRun(s, p)))
    ELSE None

\* ja.rs:60-78: the match on one character: continue, push a character, or
\* return None
Skip == [act |-> "continue"]
Push(c) == [act |-> "push", val |-> c]
Reject == [act |-> "return None"]

\* the match with the supplementary small kana moved by 0x13 instead of 0x14
katakanify_char_badoffset(c, should_ignore, should_keep) ==
    IF Holds(should_ignore, c) THEN Skip
    ELSE IF Holds(should_keep, c) THEN Push(c)
    ELSE IF c \in 12449..12538 \/ c \in 12442..12444 \/ c = 12540
            \/ c \in 110948..110951 THEN Push(c)
    ELSE IF c \in {110881, 110593} THEN Push(110881)
    ELSE IF c \in {110898, 110933} THEN Push(110933)
    ELSE IF c \in 12353..12438 THEN Push(c + 96)
    ELSE IF c \in 110928..110930 THEN Push(c + 19)
    ELSE IF c \in {12445, 12541} THEN Push(12541)
    ELSE IF c \in {12446, 12542} THEN Push(12542)
    ELSE Reject

katakanify_char(c, should_ignore, should_keep) ==
    IF Holds(should_ignore, c) THEN Skip                  \* line 61
    ELSE IF Holds(should_keep, c) THEN Push(c)            \* line 62
    ELSE IF c \in 12449..12538 \/ c \in 12442..12444 \/ c = 12540
            \/ c \in 110948..110951 THEN Push(c)          \* line 65
    ELSE IF c \in {110881, 110593} THEN Push(110881)      \* line 66
    ELSE IF c \in {110898, 110933} THEN Push(110933)      \* line 67
    ELSE IF c \in 12353..12438 THEN Push(c + 96)          \* lines 68-70, + 0x60
    ELSE IF c \in 110928..110930 THEN Push(c + 20)        \* lines 71-73, + 0x14
    ELSE IF c \in {12445, 12541} THEN Push(12541)         \* line 75
    ELSE IF c \in {12446, 12542} THEN Push(12542)         \* line 76
    ELSE Reject                                           \* line 77

\* ja.rs:55-82
RECURSIVE katakanify_from(_, _, _, _, _)
katakanify_from(reading, p, should_ignore, should_keep, normalized) ==
    IF p > Len(reading) THEN Some(normalized)
    ELSE LET m == katakanify_char(reading[p], should_ignore, should_keep)
         IN  IF m.act = "continue"
             THEN katakanify_from(reading, p + 1, should_ignore, should_keep,
                                  normalized)
             ELSE IF m.act = "push"
             THEN katakanify_from(reading, p + 1, should_ignore, should_keep,
                                  Append(normalized, m.val))
             ELSE None

try_katakanify(reading, should_ignore, should_keep) ==
    katakanify_from(reading, 1, should_ignore, should_keep, <<>>)

\* ja.rs:224-233
IsGlide(kata) ==
    \/ kata \in {12449, 12451, 12453, 12455, 12457}   \* U+30A1 A3 A5 A7 A9
    \/ kata \in {12515, 12517, 12519, 12526}          \* U+30E3 E5 E7 EE
    \/ kata \in 110948..110950                        \* U+1B164..U+1B166

\* the match with the small tsu (U+30C3) skipped as well
IsMora_smalltsu(kata) == ~IsGlide(kata) /\ kata # 12483

\* ja.rs:223-235, the match: does the character add to the duration?
IsMora(kata) == ~IsGlide(kata)

\* ja.rs:220-238
RECURSIVE compute_duration(_)
compute_duration(kata_string) ==
    IF kata_string = <<>> THEN 0
    ELSE (IF IsMora(Head(kata_string)) THEN 1 ELSE 0)
         + compute_duration(Tail(kata_string))

\* ja.rs:151-181: the character, or Abort for unimplemented!()
reiterate_seion(last) ==
    LET c == Head(last)
    IN  IF \/ c \in 12449..12458 \/ c = 12483 \/ c \in 12490..12494
           \/ c \in 12510..12531 \/ c \in {12533, 12534}
        THEN Some(c)                                        \* lines 154-159
        ELSE IF c \in 12459..12482
        THEN Some(IF c % 2 # 0 THEN c ELSE c - 1)           \* lines 160-166
        ELSE IF c \in 12495..12509
        THEN Some(c - ((c - 12495) % 3))                    \* lines 167-169
        ELSE IF c \in 12484..12489
        THEN Some(IF c % 2 = 0 THEN c ELSE c - 1)           \* lines 170-176
        ELSE IF c = 12532 THEN Some(12454)                  \* line 177
        ELSE IF c \in 12535..12538 THEN Some(c - 8)         \* line 178
        ELSE Abort                                          \* line 179

\* ja.rs:184-217: Some(character), None, or Abort for unimplemented!()
reiterate_dakuon(last) ==
    LET c == Head(last)
    IN  IF \/ c \in 12449..12453 \/ c \in 12455..12458 \/ c = 12483
           \/ c \in 12490..12494 \/ c \in 12510..12526
           \/ c \in {12531, 12533, 12534}
        THEN None                                           \* lines 187-194
        ELSE IF c \in {12454, 12532} THEN Some(12532)       \* line 195
        ELSE IF c \in 12459..12482
        THEN Some(IF c % 2 = 0 THEN c ELSE c + 1)           \* lines 196-202
        ELSE IF c \in 12495..12509
        THEN Some(c + (2 - ((c - 12495) % 3)))              \* lines 203-205
        ELSE IF c \in 12484..12489
        THEN Some(IF c % 2 # 0 THEN c ELSE c + 1)           \* lines 206-212
        ELSE IF c \in 12527..12530 THEN Some(c + 8)         \* line 213
        ELSE IF c \in 12535..12538 THEN Some(c)             \* line 214
        ELSE Abort                                          \* line 215

IterationMark == 12541          \* U+30FD
VoicedIterationMark == 12542    \* U+30FE

\* ja.rs:119-130: the marks that follow the first p characters of s, each as
\* "demands a dakuten"
RECURSIVE PeekMarks(_, _)
PeekMarks(s, p) ==
    IF p >= Len(s) THEN <<>>
    ELSE LET x == try_consume_kana(s, p + 1)
         IN  IF x.some /\ x.val = <<IterationMark>>
             THEN <<FALSE>> \o PeekMarks(s, p + 1)
             ELSE IF x.some /\ x.val = <<VoicedIterationMark>>
             THEN <<TRUE>> \o PeekMarks(s, p + 1)
             ELSE <<>>

\* ja.rs:137-143: the targets of source[j..] under marks[j..], in order
RECURSIVE ReiterateEach(_, _, _, _)
ReiterateEach(source, marks, j, target) ==
    IF j > Len(marks) THEN Some(target)
    ELSE LET r == IF marks[j] THEN reiterate_dakuon(source[j])
                  ELSE reiterate_seion(source[j])
         IN  IF IsAbort(r) THEN Abort
             ELSE IF ~r.some THEN None
             ELSE ReiterateEach(source, marks, j + 1, Append(target, r.val))

\* line 132 with the comparison off by one
TooManyMarks_offbyone(iteration_count, source_len) ==
    iteration_count > source_len + 1

\* ja.rs:132, iteration_count > source.len()
TooManyMarks(iteration_count, source_len) == iteration_count > source_len

\* ja.rs:117-148: first is the mark just consumed (the p-th character of s).
\* None, Abort, or the target and the number of marks of the chain.
reiterate(first, source, s, p) ==
    LET should_dakuten_by_mark ==
            <<first = <<VoicedIterationMark>>>> \o PeekMarks(s, p)
        iteration_count == Len(should_dakuten_by_mark)
    IN  IF TooManyMarks(iteration_count, Len(source)) THEN None
        ELSE IF iteration_count > Len(source) THEN Abort  \* line 135: usize underflow
        ELSE LET target ==
                     ReiterateEach(
                         SubSeq(source, Len(source) - iteration_count + 1,
                                Len(source)),
                         should_dakuten_by_mark, 1, <<>>)
             IN  IF IsAbort(target) \/ ~target.some THEN target
                 ELSE Some([target |-> target.val, count |-> iteration_count])

\* ja.rs:84-114: p characters of reading have been consumed
RECURSIVE expand_from(_, _, _, _)
expand_from(reading, p, kata_buffer, buffer) ==
    IF p >= Len(reading) THEN Some(buffer \o Concat(kata_buffer))
    ELSE LET kana == try_consume_kana(reading, p + 1)
         IN  IF ~kana.some
             THEN expand_from(reading, p + 1, <<>>, buffer \o Concat(kata_buffer))
             ELSE IF kana.val \in {<<IterationMark>>, <<VoicedIterationMark>>}
             THEN LET extra == reiterate(kana.val, kata_buffer, reading, p + 1)
                  IN  IF IsAbort(extra) \/ ~extra.some THEN extra
                      ELSE expand_from(reading, p + extra.val.count, <<>>,
                                       buffer \o Concat(kata_buffer)
                                              \o extra.val.target)
             ELSE expand_from(reading, p + Len(kana.val),
                              Append(kata_buffer, kana.val), buffer)

expand_katakana(reading) == expand_from(reading, 0, <<>>, <<>>)

(***************************************************************************)
(* The documents the scanner is run on.                                    *)
(***************************************************************************)
BraceAlphabet == {LBRACE, RBRACE, PIPE, LetterA}

FreeDocs == SeqsUpTo(BraceAlphabet, MaxDocLen)

CommentOpen == <<LT, BANG, HYPHEN, HYPHEN>>
CommentClose == <<HYPHEN, HYPHEN, GT>>

Pieces ==
    {<<LBRACE, LBRACE>>, <<RBRACE, RBRACE>>, <<PIPE>>, <<LetterA>>, <<HiraA>>,
     CommentOpen, CommentClose}

PieceDocs == {Concat(ps) : ps \in SeqsUpTo(Pieces, MaxPieces)}

\* Well-formed documents, by construction: a template is "{{name}}" or
\* "{{name|args}}", its name is plain text, its arguments are plain text, "|"
\* and templates.
Tmpl(n, a) == <<LBRACE, LBRACE>> \o n \o <<PIPE>> \o a \o <<RBRACE, RBRACE>>
TmplBare(n) == <<LBRACE, LBRACE>> \o n \o <<RBRACE, RBRACE>>

Names == {<<LetterA>>, <<HiraA, LetterA>>}
PlainArgs == {<<>>, <<LetterA>>, <<PIPE>>, <<LetterA, PIPE, HiraA>>}
Flat == {TmplBare(n) : n \in Names} \cup {Tmpl(n, a) : n \in Names, a \in PlainArgs}
Glue == {<<>>, <<LetterA>>, <<PIPE>>}
NestedArgs == {x \o t \o y : x \in Glue, t \in Flat, y \in Glue}
Nested == {Tmpl(<<LetterA>>, a) : a \in NestedArgs}
WellFormedDocs ==
    Flat \cup Nested
         \cup {x \o t \o y \o u : x \in {<<>>, <<LetterA>>}, t \in Flat,
                                  y \in {<<>>, <<HiraA>>}, u \in Flat}

\* "{{foo|a={{bar|b}}|c}}" and "{{foo}}}" (spec.md, section 8)
DocFooBar ==
    <<123, 123, 102, 111, 111, 124, 97, 61, 123, 123, 98, 97, 114, 124, 98,
      125, 125, 124, 99, 125, 125>>
DocFooExtra == <<123, 123, 102, 111, 111, 125, 125, 125>>

\* invocations with a terminated comment in the name or in the arguments:
\* "{{a|a<!--a-->a}}", "{{a|<!--}}-->a}}", "{{a<!--|-->|a}}", "{{a<!--a-->}}",
\* "<!--{{a}}-->{{a|a}}"
CommentDocs ==
    LET a == <<LetterA>>
        open == <<LBRACE, LBRACE>>
        close == <<RBRACE, RBRACE>>
        bar == <<PIPE>>
    IN  {open \o a \o bar \o a \o CommentOpen \o a \o CommentClose \o a \o close,
         open \o a \o bar \o CommentOpen \o close \o CommentClose \o a \o close,
         open \o a \o CommentOpen \o bar \o CommentClose \o bar \o a \o close,
         open \o a \o CommentOpen \o a \o CommentClose \o close,
         CommentOpen \o open \o a \o close \o CommentClose \o open \o a \o bar
             \o a \o close}

Docs ==
    FreeDocs \cup PieceDocs \cup WellFormedDocs \cup CommentDocs
        \cup {DocFooBar, DocFooExtra}

(***************************************************************************)
(* TemplateParameters (wikitext.rs:92-179).                                *)
(***************************************************************************)
TemplateParameters_new(s) ==
    [s |-> s, char_indices |-> 0, start |-> 0, depth |-> 0, commentless |-> None,
     is_invalid |-> FALSE]

\* lines 120-125 returning the borrowed part even when a buffer is pending
TemplateParameters_emit_borrowed(t, part, how) ==
    Returned([t EXCEPT !.commentless = None],
             Some([cow |-> "Borrowed", str |-> part]), how)

\* wikitext.rs:120-125 and 169-174: the Cow the call returns, and the iterator
\* with the comment-free buffer taken
TemplateParameters_emit(t, part, how) ==
    Returned([t EXCEPT !.commentless = None],
             Some(IF t.commentless.some
                  THEN [cow |-> "Owned", str |-> t.commentless.val \o part]
                  ELSE [cow |-> "Borrowed", str |-> part]),
             how)

\* wikitext.rs:153-158: the byte offset of the "-" that starts the "-->" closing
\* a comment, scanning from character ci (-1 when the comment is not terminated)
RECURSIVE CommentEnd(_, _)
CommentEnd(s, ci) ==
    IF ci >= Len(s) THEN -1
    ELSE IF s[ci + 1] = HYPHEN /\ try_consume(s, ci + 1, <<HYPHEN, GT>>)
         THEN ByteOff(s, ci)
         ELSE CommentEnd(s, ci + 1)

\* line 166 without the test of commentless
TemplateParameters_tail_nocomment(t) ==
    IF t.start < StrLen(t.s)
    THEN IF SliceOk(t.s, t.start, StrLen(t.s))
         THEN TemplateParameters_emit([t EXCEPT !.start = StrLen(t.s)],
                                      Slice(t.s, t.start, StrLen(t.s)), "tail")
         ELSE Panicked(t)
    ELSE Returned(t, None, "end")

\* wikitext.rs:166-177: after the loop
TemplateParameters_tail(t) ==
    IF t.start < StrLen(t.s) \/ t.commentless.some
    THEN IF SliceOk(t.s, t.start, StrLen(t.s))
         THEN TemplateParameters_emit([t EXCEPT !.start = StrLen(t.s)],
                                      Slice(t.s, t.start, StrLen(t.s)), "tail")
         ELSE Panicked(t)
    ELSE Returned(t, None, "end")

\* wikitext.rs:115-164: the loop of next
RECURSIVE TemplateParameters_loop(_)
TemplateParameters_loop(t) ==
    IF t.char_indices >= Len(t.s) THEN TemplateParameters_tail(t)
    ELSE
    LET i == ByteOff(t.s, t.char_indices)
        c == t.s[t.char_indices + 1]
        ci == t.char_indices + 1
        down(n) == \* checked_sub(1) of lines 131-135 and 141-145
            IF t.depth = 0
            THEN Returned([t EXCEPT !.char_indices = ci + n, !.is_invalid = TRUE],
                          None, "underflow")
            ELSE TemplateParameters_loop(
                     [t EXCEPT !.char_indices = ci + n, !.depth = @ - 1])
    IN  IF c = PIPE /\ t.depth = 0
        THEN IF SliceOk(t.s, t.start, i)
             THEN TemplateParameters_emit(
                      [t EXCEPT !.char_indices = ci, !.start = i + 1],
                      Slice(t.s, t.start, i), "pipe")
             ELSE Panicked(t)
        ELSE IF c = LBRACE /\ try_consume(t.s, ci, <<LBRACE, LBRACE>>)
        THEN TemplateParameters_loop(
                 [t EXCEPT !.char_indices = ci + 2, !.depth = @ + 1])
        ELSE IF c = RBRACE /\ try_consume(t.s, ci, <<RBRACE, RBRACE>>)
        THEN down(2)
        ELSE IF c \in {LBRACKET, LBRACE} /\ try_consume(t.s, ci, <<c>>)
        THEN TemplateParameters_loop(
                 [t EXCEPT !.char_indices = ci + 1, !.depth = @ + 1])
        ELSE IF c \in {RBRACKET, RBRACE} /\ try_consume(t.s, ci, <<c>>)
        THEN down(1)
        ELSE IF c = LT /\ try_consume(t.s, ci, <<BANG, HYPHEN, HYPHEN>>)
        THEN IF ~SliceOk(t.s, t.start, i) THEN Panicked(t) ELSE
             LET buffered == Some(IF t.commentless.some
                                  THEN t.commentless.val \o Slice(t.s, t.start, i)
                                  ELSE Slice(t.s, t.start, i))
                 close == CommentEnd(t.s, ci + 3)
             IN  IF close = -1
                 THEN Returned([t EXCEPT !.char_indices = Len(t.s),
                                         !.commentless = buffered,
                                         !.is_invalid = TRUE], None, "comment")
                 ELSE TemplateParameters_loop(
                          [t EXCEPT !.char_indices = CharsBefore(t.s, close) + 3,
                                    !.commentless = buffered,
                                    !.start = close + 3])
        ELSE TemplateParameters_loop([t EXCEPT !.char_indices = ci])

\* next without the test of is_invalid at lines 111-113
TemplateParameters_next_unlatched(t) == TemplateParameters_loop(t)

\* wikitext.rs:110-178, TemplateParameters::next
TemplateParameters_next(t) ==
    IF t.is_invalid THEN Returned(t, None, "invalid") ELSE TemplateParameters_loop(t)

(***************************************************************************)
(* The argument blobs the splitter is run on.                              *)
(***************************************************************************)
SplitAlphabet == {LBRACE, RBRACE, LBRACKET, RBRACKET, PIPE, LetterA}

FreeBlobs == SeqsUpTo(SplitAlphabet, MaxBlobLen)

BlobPieces ==
    {<<LBRACE, LBRACE>>, <<RBRACE, RBRACE>>, <<LBRACKET, LBRACKET>>,
     <<RBRACKET, RBRACKET>>, <<PIPE>>, <<LetterA>>, <<HiraA>>, CommentOpen,
     CommentClose}

PieceBlobs == {Concat(ps) : ps \in SeqsUpTo(BlobPieces, MaxBlobPieces)}

\* Balanced blobs, by construction: plain text, "|", and "{{...}}" / "[[...]]"
\* pairs nested up to two deep.
Braced(x) == <<LBRACE, LBRACE>> \o x \o <<RBRACE, RBRACE>>
Bracketed(x) == <<LBRACKET, LBRACKET>> \o x \o <<RBRACKET, RBRACKET>>
Inner == {<<>>, <<LetterA>>, <<PIPE>>, <<HiraA, PIPE, LetterA>>}
Pair1 == {Braced(x) : x \in Inner} \cup {Bracketed(x) : x \in Inner}
Pair2 ==
    {Braced(x \o q \o y) : x \in Glue, q \in Pair1, y \in Glue}
        \cup {Bracketed(x \o q \o y) : x \in Glue, q \in Pair1, y \in Glue}
BalancedBlobs ==
    {x \o q \o y \o z : x \in Glue, q \in Pair1 \cup Pair2, y \in Glue, z \in Glue}

\* "a={{bar|b}}|c" (spec.md, section 8)
BlobBarC == <<97, 61, 123, 123, 98, 97, 114, 124, 98, 125, 125, 124, 99>>

Blobs == FreeBlobs \cup PieceBlobs \cup BalancedBlobs \cup {BlobBarC}

(***************************************************************************)
(* The splitter as a state machine: one action per call of next.           *)
(***************************************************************************)
IdleK ==
    /\ k_in = [reading |-> <<>>, should_ignore |-> Closure("never"),
               should_keep |-> Closure("never")]
    /\ k_pc = "idle"
    /\ k_norm = None
    /\ k_out = None

IdleD ==
    /\ d_in = [title |-> <<>>, readings |-> <<>>, alterations |-> <<>>,
               omissions |-> <<>>, candidates |-> {}]
    /\ d_pc = "idle"
    /\ d_atoms = <<>>
    /\ d_result = "none"
    /\ d_repl = <<>>
    /\ d_reading = <<>>

IdleA ==
    /\ a_in = [title |-> <<>>, readings |-> <<>>, accents |-> <<>>,
               accent_locations |-> <<>>]
    /\ a_pc = "idle"
    /\ a_readings = <<>>
    /\ a_accents = <<>>
    /\ a_last = None
    /\ a_i = 0
    /\ a_infos = <<>>

IdleM ==
    /\ m_info = [t \in {} |-> t]
    /\ m_redirects = <<>>
    /\ m_pc = "idle"
    /\ m_count = 0

IdleTP ==
    /\ tp = TemplateParameters_new(<<>>)
    /\ tp_items = <<>>
    /\ tp_ret = None
    /\ tp_nones = 0
    /\ tp_panic = FALSE

IdleFT ==
    /\ ft = FindTemplates_new(<<>>)
    /\ ft_items = <<>>
    /\ ft_ret = None
    /\ ft_nones = 0
    /\ ft_panic = FALSE

InitTP ==
    /\ tp \in {TemplateParameters_new(b) : b \in Blobs}
    /\ tp_items = <<>>
    /\ tp_ret = None
    /\ tp_nones = 0
    /\ tp_panic = FALSE
    /\ IdleFT
    /\ IdleK
    /\ IdleD
    /\ IdleA
    /\ IdleM

TP_Next ==
    /\ ~tp_panic
    /\ tp_nones <= MaxAfter
    /\ LET r == TemplateParameters_next(tp)
       IN  /\ tp' = r.self
           /\ tp_ret' = r.ret
           /\ tp_panic' = r.panic
           /\ tp_items' = IF r.ret.some THEN Append(tp_items, r.ret.val.str)
                          ELSE tp_items
           /\ tp_nones' = IF r.ret.some \/ r.panic THEN tp_nones ELSE tp_nones + 1
    /\ UNCHANGED <<ftVars, kVars, dVars, aVars, mVars>>

NextTP == TP_Next

SpecTP == InitTP /\ [][NextTP]_vars

(***************************************************************************)
(* The scanner as a state machine: one action per call of next.            *)
(***************************************************************************)
InitFT ==
    /\ ft \in {FindTemplates_new(d) : d \in Docs}
    /\ ft_items = <<>>
    /\ ft_ret = None
    /\ ft_nones = 0
    /\ ft_panic = FALSE
    /\ IdleTP
    /\ IdleK
    /\ IdleD
    /\ IdleA
    /\ IdleM

\* a call of FindTemplates::next by the consumer; after the first None the
\* consumer may go on calling
FT_Next ==
    /\ ~ft_panic
    /\ ft_nones <= MaxAfter
    /\ LET r == FindTemplates_next(ft)
       IN  /\ ft' = r.self
           /\ ft_ret' = r.ret
           /\ ft_panic' = r.panic
           /\ ft_items' = IF r.ret.some THEN Append(ft_items, r.ret.val) ELSE ft_items
           /\ ft_nones' = IF r.ret.some \/ r.panic THEN ft_nones ELSE ft_nones + 1
    /\ UNCHANGED <<tpVars, kVars, dVars, aVars, mVars>>

NextFT == FT_Next

SpecFT == InitFT /\ [][NextFT]_vars

(***************************************************************************)
(* The kana engine as a state machine: try_katakanify is applied to a      *)
(* reading under a pair of predicates, then one of try_katakanify (again), *)
(* compute_duration and expand_katakana is applied to what it returned.    *)
(***************************************************************************)
\* か ゃ ゎ カ ッ U+1B150 "-" 漢 "x"
KanaAlphabet == {12363, 12419, 12430, 12459, 12483, 110928, 45, 28450, 120}

\* カ ア ー ヽ ゞ U+309B (spacing mark, no kana) U+309A (combining)
MarkAlphabet == {12459, 12450, 12540, 12541, 12446, 12443, 12442}

\* the pairs the program passes (infer.rs:59, 75, 82, 178, 207, 220) and pairs
\* of arbitrary predicates
ProgramPredicates ==
    {[should_ignore |-> Closure("title_ignore"), should_keep |-> Closure("is_ideograph")],
     [should_ignore |-> Closure("is_whitespace"), should_keep |-> Closure("never")],
     [should_ignore |-> Closure("never"), should_keep |-> Closure("never")],
     [should_ignore |-> Closure("pos_reading_ignore"), should_keep |-> Closure("never")],
     [should_ignore |-> Closure("reading_ignore"), should_keep |-> Closure("never")]}

OtherPredicates ==
    {[should_ignore |-> SetOf({12459}), should_keep |-> Closure("never")],
     [should_ignore |-> Closure("never"), should_keep |-> SetOf({120, 12363})],
     [should_ignore |-> SetOf({12483, 120}), should_keep |-> SetOf({12459})]}

\* the calls with readings of up to n characters and mark strings of up to m
KatakanifyCalls(n, m) ==
    {[reading |-> s, should_ignore |-> q.should_ignore, should_keep |-> q.should_keep] :
        s \in SeqsUpTo(KanaAlphabet, n),
        q \in ProgramPredicates \cup OtherPredicates}
    \cup
    {[reading |-> s, should_ignore |-> Closure("reading_ignore"),
      should_keep |-> Closure("never")] : s \in SeqsUpTo(MarkAlphabet, m)}

InitK ==
    /\ k_in \in KatakanifyCalls(MaxReadingLen, MaxMarkLen)
    /\ k_pc = "start"
    /\ k_norm = None
    /\ k_out = None
    /\ IdleFT
    /\ IdleTP
    /\ IdleD
    /\ IdleA
    /\ IdleM

K_Katakanify ==
    /\ k_pc = "start"
    /\ k_norm' = try_katakanify(k_in.reading, k_in.should_ignore, k_in.should_keep)
    /\ k_pc' = "normalized"
    /\ UNCHANGED <<k_in, k_out, ftVars, tpVars, dVars, aVars, mVars>>

\* try_katakanify applied to its own output
K_Again ==
    /\ k_pc = "normalized" /\ k_norm.some
    /\ k_out' = try_katakanify(k_norm.val, k_in.should_ignore, k_in.should_keep)
    /\ k_pc' = "again"
    /\ UNCHANGED <<k_in, k_norm, ftVars, tpVars, dVars, aVars, mVars>>

K_Duration ==
    /\ k_pc = "normalized" /\ k_norm.some
    /\ k_out' = compute_duration(k_norm.val)
    /\ k_pc' = "measured"
    /\ UNCHANGED <<k_in, k_norm, ftVars, tpVars, dVars, aVars, mVars>>

\* infer.rs:207-208 and 220: try_katakanify(..).and_then(|x| expand_katakana(&x))
K_Expand ==
    /\ k_pc = "normalized" /\ k_norm.some
    /\ k_out' = expand_katakana(k_norm.val)
    /\ k_pc' = "expanded"
    /\ UNCHANGED <<k_in, k_norm, ftVars, tpVars, dVars, aVars, mVars>>

NextK == K_Katakanify \/ K_Again \/ K_Duration \/ K_Expand

SpecK == InitK /\ [][NextK]_vars

(***************************************************************************)
(* The seion/dakuon table on its own: reiterate_seion and reiterate_dakuon *)
(* applied to one cluster of the lookback buffer (ja.rs:139, 141).         *)
(***************************************************************************)
\* U+30A1..U+30FA, the katakana block try_katakanify lets through (line 65)
Syllables == 12449..12538

\* a cluster is a syllable, alone or with a combining sound mark absorbed by
\* try_consume_kana (ja.rs:45)
LookbackClusters ==
    {<<c>> : c \in Syllables} \cup {<<c, 12441>> : c \in {12459, 12495, 12454}}

InitR ==
    /\ k_in \in {[reading |-> x, should_ignore |-> Closure("never"),
                  should_keep |-> Closure("never")] : x \in LookbackClusters}
    /\ k_pc = "cluster"
    /\ k_norm = None
    /\ k_out = None
    /\ IdleFT
    /\ IdleTP
    /\ IdleD
    /\ IdleA
    /\ IdleM

R_Dakuon ==
    /\ k_pc = "cluster"
    /\ k_out' = reiterate_dakuon(k_in.reading)
    /\ k_pc' = "dakuon"
    /\ UNCHANGED <<k_in, k_norm, ftVars, tpVars, dVars, aVars, mVars>>

R_Seion ==
    /\ k_pc = "cluster"
    /\ k_out' = reiterate_seion(k_in.reading)
    /\ k_pc' = "seion"
    /\ UNCHANGED <<k_in, k_norm, ftVars, tpVars, dVars, aVars, mVars>>

\* reiterate_seion applied to what reiterate_dakuon returned
R_SeionOfDakuon ==
    /\ k_pc = "dakuon" /\ k_out.some
    /\ k_norm' = reiterate_seion(<<k_out.val>>)
    /\ k_pc' = "seion of dakuon"
    /\ UNCHANGED <<k_in, k_out, ftVars, tpVars, dVars, aVars, mVars>>

NextR == R_Dakuon \/ R_Seion \/ R_SeionOfDakuon

SpecR == InitR /\ [][NextR]_vars

(***************************************************************************)
(* infer_decompositions and align (infer.rs:43-169).                       *)
(***************************************************************************)
\* infer.rs:37-41; an atom as its kind, its character_count (0 for the
\* kinds that have none, as lines 102-106 count them) and the string that
\* DecompositionInfo::reading takes from it (lines 18-22)
Ruby(character_count, reading) ==
    [kind |-> "Ruby", character_count |-> character_count, reading |-> reading]
Unknown(c) == [kind |-> "Unknown", character_count |-> 0, reading |-> <<c>>]
Kana(kana) == [kind |-> "Kana", character_count |-> 0, reading |-> kana]

SmallKe == 12534        \* ヶ U+30F6
KataKa == 12459         \* カ U+30AB
KataGa == 12460         \* ガ U+30AC
KataDu == 12485         \* ヅ U+30C5
KataZu == 12474         \* ズ U+30BA
LongVowel == 12540      \* ー U+30FC

\* str::strip_prefix
strip_prefix(remaining, prefix) ==
    IF Len(prefix) <= Len(remaining)
       /\ SubSeq(remaining, 1, Len(prefix)) = prefix
    THEN Some(SubSeq(remaining, Len(prefix) + 1, Len(remaining)))
    ELSE None

\* infer.rs:66-70: the cell's reading, or its alteration if there is one
EffectiveReading(tab, kanji_cursor) ==
    IF kanji_cursor < Len(tab.alterations)
       /\ tab.alterations[kanji_cursor + 1].some
    THEN tab.alterations[kanji_cursor + 1].val
    ELSE tab.readings[kanji_cursor + 1].text

\* infer.rs:71-77
CellReading(reading) ==
    IF reading \in {<<LongVowel>>, <<HYPHEN>>} THEN Some(<<>>)
    ELSE try_katakanify(reading, Closure("is_whitespace"), Closure("never"))

\* the range of line 85 taken as 0..character_count
skip_count_offbyone(character_count) == character_count

\* infer.rs:85: how many times the range 1..character_count iterates
skip_count(character_count) ==
    IF character_count >= 1 THEN character_count - 1 ELSE 0

\* infer.rs:85-88: chars has n more characters after the first p of t (the
\* unwrap) and they are ideographs (the assert)
SkipsIdeographs(t, p, n) ==
    \A j \in (p + 1)..(p + n) : j <= Len(t) /\ is_ideograph(t[j])

\* an early return or an abort of infer_decompositions
Stop(res) == [res |-> res, atoms |-> <<>>, kanji_cursor |-> 0]

\* infer.rs:63-97: p characters of the normalized title t have been consumed
RECURSIVE walk_from(_, _, _, _, _)
walk_from(tab, t, p, kanji_cursor, atoms) ==
    IF p >= Len(t)
    THEN [res |-> "walked", atoms |-> atoms, kanji_cursor |-> kanji_cursor]
    ELSE IF is_ideograph(t[p + 1])
    THEN IF kanji_cursor >= Len(tab.readings) THEN Stop("Incomplete")  \* 66-68
         ELSE LET character_count == tab.readings[kanji_cursor + 1].count
                  reading == CellReading(EffectiveReading(tab, kanji_cursor))
                  has_omission ==
                      /\ kanji_cursor < Len(tab.omissions)
                      /\ tab.omissions[kanji_cursor + 1].some
                  omission ==
                      IF has_omission
                      THEN try_katakanify(tab.omissions[kanji_cursor + 1].val,
                                          Closure("never"), Closure("never"))
                      ELSE None
                  n == skip_count(character_count)
              IN  IF ~reading.some THEN Stop("Unconsidered")           \* 76
                  ELSE IF has_omission /\ ~omission.some
                  THEN Stop("abort")                                   \* 82
                  ELSE IF ~SkipsIdeographs(t, p + 1, n)
                  THEN Stop("abort")                                   \* 86-87
                  ELSE walk_from(tab, t, p + 1 + n, kanji_cursor + 1,
                           atoms \o <<Ruby(character_count, reading.val)>>
                                 \o (IF has_omission
                                     THEN <<Ruby(0, omission.val)>>
                                     ELSE <<>>))
    ELSE IF t[p + 1] = SmallKe
    THEN walk_from(tab, t, p + 1, kanji_cursor,
                   Append(atoms, Unknown(t[p + 1])))                   \* 90-91
    ELSE LET kana == try_consume_kana(t, p + 1)
         IN  IF kana.some
             THEN walk_from(tab, t, p + Len(kana.val), kanji_cursor,
                            Append(atoms, Kana(kana.val)))             \* 92-93
             ELSE Stop("abort")                                        \* 95

\* infer.rs:100-107
RECURSIVE RubySum(_)
RubySum(atoms) ==
    IF atoms = <<>> THEN 0
    ELSE Head(atoms).character_count + RubySum(Tail(atoms))

\* infer.rs:108
RECURSIVE CountIdeographs(_)
CountIdeographs(title) ==
    IF title = <<>> THEN 0
    ELSE (IF is_ideograph(Head(title)) THEN 1 ELSE 0)
         + CountIdeographs(Tail(title))

\* infer.rs:46-112: infer_decompositions up to the call of align
infer_walk(title, tab) ==
    IF tab.readings = <<>> THEN Stop("Empty")                          \* 46-51
    ELSE IF \/ Len(tab.readings) < Len(tab.alterations)
            \/ Len(tab.readings) < Len(tab.omissions)
    THEN Stop("abort")                                                 \* 53-54
    ELSE LET kata_title == try_katakanify(title, Closure("title_ignore"),
                                          Closure("is_ideograph"))
         IN  IF ~kata_title.some THEN Stop("Unconsidered")             \* 59-61
             ELSE LET w == walk_from(tab, kata_title.val, 0, 0, <<>>)
                  IN  IF w.res # "walked" THEN w
                      ELSE IF RubySum(w.atoms) # CountIdeographs(title)
                      THEN Stop("abort")                               \* 99-109
                      ELSE IF \E j \in (w.kanji_cursor + 1)..Len(tab.readings) :
                                  tab.readings[j].text # <<>>
                      THEN Stop("abort")                               \* 112
                      ELSE w

\* infer.rs:127-166: one candidate reading against the atoms, i of them done
RECURSIVE align_from(_, _, _, _)
align_from(candidate, i, remaining, replacements) ==
    IF i >= Len(candidate) THEN Some(replacements)                     \* 166
    ELSE LET atom == candidate[i + 1]
             then == strip_prefix(remaining, atom.reading)
             ka == strip_prefix(remaining, <<KataKa>>)
             ga == strip_prefix(remaining, <<KataGa>>)
             zu == strip_prefix(remaining, <<KataZu>>)
         IN  IF atom.kind = "Ruby"
             THEN IF then.some
                  THEN align_from(candidate, i + 1, then.val, replacements)
                  ELSE None
             ELSE IF atom.kind = "Unknown"
             THEN IF atom.reading # <<SmallKe>> THEN None              \* 150
                  ELSE IF ka.some
                  THEN align_from(candidate, i + 1, ka.val,
                           Append(replacements, [i |-> i, reading |-> <<KataKa>>]))
                  ELSE IF ga.some
                  THEN align_from(candidate, i + 1, ga.val,
                           Append(replacements, [i |-> i, reading |-> <<KataGa>>]))
                  ELSE None
             ELSE IF then.some
                  THEN align_from(candidate, i + 1, then.val, replacements)
                  ELSE IF atom.reading = <<KataDu>> /\ zu.some
                  THEN align_from(candidate, i + 1, zu.val,
                           Append(replacements, [i |-> i, reading |-> <<KataZu>>]))
                  ELSE None

\* infer.rs:125-169 for one member of readings
align(candidate, reading) == align_from(candidate, 0, reading, <<>>)

\* lines 118-120 writing character_count 0
apply_replacements_nocount(atoms, replacements) ==
    [j \in 1..Len(atoms) |->
        IF \E r \in 1..Len(replacements) : replacements[r].i + 1 = j
        THEN Ruby(0, replacements[CHOOSE r \in 1..Len(replacements) :
                                      replacements[r].i + 1 = j].reading)
        ELSE atoms[j]]

\* infer.rs:118-120
apply_replacements(atoms, replacements) ==
    [j \in 1..Len(atoms) |->
        IF \E r \in 1..Len(replacements) : replacements[r].i + 1 = j
        THEN Ruby(1, replacements[CHOOSE r \in 1..Len(replacements) :
                                      replacements[r].i + 1 = j].reading)
        ELSE atoms[j]]

\* infer.rs:15-24, DecompositionInfo::reading
RECURSIVE reading_of(_)
reading_of(atoms) ==
    IF atoms = <<>> THEN <<>>
    ELSE Head(atoms).reading \o reading_of(Tail(atoms))

\* 漢 ヶ ヅ か "x"
TitleAlphabet == {28450, SmallKe, KataDu, 12363, 120}

\* titles with three ideographs, an ignored "-", a free-standing sound mark
LongTitles ==
    {<<28450, 28450, 28450>>, <<28450, 28450, SmallKe>>,
     <<28450, HYPHEN, 28450>>, <<12443, 28450>>}

Titles(n) == SeqsUpTo(TitleAlphabet, n) \cup LongTitles

\* reading cells as parse_ja_kanjitab makes them (parse.rs:34-46): a text and
\* a character count
Cells ==
    {[text |-> <<12363>>, count |-> 1], [text |-> <<KataKa>>, count |-> 2],
     [text |-> <<>>, count |-> 1], [text |-> <<120>>, count |-> 1],
     [text |-> <<KataKa>>, count |-> 0]}

PlainTables(n) ==
    {[readings |-> r, alterations |-> <<>>, omissions |-> <<>>] :
        r \in SeqsUpTo(Cells, n)}

\* tables with alterations and omissions (parse.rs:18-33)
AlteredTables ==
    LET ka == [text |-> <<12363>>, count |-> 1]
        x == [text |-> <<120>>, count |-> 1]
    IN  {[readings |-> <<x>>, alterations |-> <<Some(<<12363>>)>>, omissions |-> <<>>],
         [readings |-> <<ka>>, alterations |-> <<>>, omissions |-> <<Some(<<KataGa>>)>>],
         [readings |-> <<ka>>, alterations |-> <<>>, omissions |-> <<Some(<<120>>)>>],
         [readings |-> <<ka>>, alterations |-> <<None, Some(<<KataKa>>)>>, omissions |-> <<>>],
         [readings |-> <<ka>>, alterations |-> <<>>, omissions |-> <<None, None>>],
         [readings |-> <<ka>>, alterations |-> <<Some(<<LongVowel>>)>>, omissions |-> <<>>],
         [readings |-> <<ka, ka>>, alterations |-> <<None, Some(<<KataGa, 32>>)>>,
          omissions |-> <<>>],
         [readings |-> <<>>, alterations |-> <<Some(<<KataKa>>)>>, omissions |-> <<>>]}

\* the candidate readings (main.rs:87, 194)
CandidateSets ==
    {{}, {<<KataKa>>, <<KataKa, KataKa>>}, {<<KataKa, KataGa>>, <<KataZu>>}}

\* the calls with titles of up to n characters and tables of up to m cells
DecompositionCalls(n, m) ==
    {[title |-> t, readings |-> tab.readings, alterations |-> tab.alterations,
      omissions |-> tab.omissions, candidates |-> c] :
        t \in Titles(n), tab \in PlainTables(m) \cup AlteredTables,
        c \in CandidateSets}

InitD ==
    /\ d_in \in DecompositionCalls(MaxTitleLen, MaxCells)
    /\ d_pc = "start"
    /\ d_atoms = <<>>
    /\ d_result = "none"
    /\ d_repl = <<>>
    /\ d_reading = <<>>
    /\ IdleFT
    /\ IdleTP
    /\ IdleK
    /\ IdleA
    /\ IdleM

\* infer.rs:46-112
D_Walk ==
    /\ d_pc = "start"
    /\ LET w == infer_walk(d_in.title, d_in)
       IN  /\ d_atoms' = w.atoms
           /\ d_result' = IF w.res = "walked" THEN "none" ELSE w.res
           /\ d_pc' = IF w.res = "walked" THEN "walked"
                      ELSE IF w.res = "abort" THEN "aborted" ELSE "returned"
    /\ UNCHANGED <<d_in, d_repl, d_reading, ftVars, tpVars, kVars, aVars, mVars>>

\* infer.rs:114-122; readings is a HashSet, iterated in an order the program
\* does not choose, so any member that aligns may be the one align returns on
D_Align ==
    /\ d_pc = "walked"
    /\ \/ \E reading \in d_in.candidates :
            LET replacements == align(d_atoms, reading)
            IN  /\ replacements.some
                /\ d_repl' = replacements.val
                /\ d_atoms' = apply_replacements(d_atoms, replacements.val)
                /\ d_result' = "Ok"
       \/ /\ \A reading \in d_in.candidates : ~align(d_atoms, reading).some
          /\ d_result' = "Mismatch"
          /\ UNCHANGED <<d_atoms, d_repl>>
    /\ d_pc' = "returned"
    /\ UNCHANGED <<d_in, d_reading, ftVars, tpVars, kVars, aVars, mVars>>

\* DecompositionInfo::reading on the value returned
D_Reading ==
    /\ d_pc = "returned" /\ d_result = "Ok"
    /\ d_reading' = reading_of(d_atoms)
    /\ d_pc' = "read"
    /\ UNCHANGED <<d_in, d_atoms, d_result, d_repl, ftVars, tpVars, kVars, aVars, mVars>>

NextD == D_Walk \/ D_Align \/ D_Reading

SpecD == InitD /\ [][NextD]_vars

(***************************************************************************)
(* infer_accent (infer.rs:194-261), one step per index of its loop.        *)
(***************************************************************************)
\* infer.rs:195-199, enum Reading
Fallback == [kind |-> "Fallback", val |-> <<>>]
Error == [kind |-> "Error", val |-> <<>>]
Actual(x) == [kind |-> "Actual", val |-> x]

\* parse.rs:164-168, enum JaPronAccent
Numeric(n) == [kind |-> "Numeric", n |-> n]
Odaka == [kind |-> "Odaka", n |-> 0]
NoAccent == [kind |-> "None", n |-> 0]

\* infer.rs:207-208 and 220:
\* try_katakanify(.., reading_ignore, |_| false).and_then(expand_katakana);
\* Some, None, or Abort when expand_katakana aborts
normalize_and_expand(reading) ==
    LET x == try_katakanify(reading, Closure("reading_ignore"), Closure("never"))
    IN  IF ~x.some THEN None ELSE expand_katakana(x.val)

\* infer.rs:202-212
classify(reading) ==
    IF reading = <<>> THEN Fallback
    ELSE LET x == normalize_and_expand(reading)
         IN  IF IsAbort(x) THEN Abort
             ELSE IF x.some THEN Actual(x.val) ELSE Error

\* Vec::resize: v cut or padded with fill to n elements
resize(v, n, fill) == [j \in 1..n |-> IF j <= Len(v) THEN v[j] ELSE fill]

\* line 226 leaving last_reading as it was
after_error_kept(last_reading) == last_reading

\* infer.rs:226
after_error(last_reading) == None

\* infer.rs:243-247
resolve_accent(accent, reading) ==
    IF accent.kind = "Numeric" THEN Some(accent.n)
    ELSE IF accent.kind = "Odaka" THEN Some(compute_duration(reading))
    ELSE None

AccentInfo(reading, accent) == [reading |-> reading, accent |-> accent]

\* infer.rs:252
accents_within_duration(accent_infos) ==
    \A j \in 1..Len(accent_infos) :
        accent_infos[j].accent.some =>
            accent_infos[j].accent.val <= compute_duration(accent_infos[j].reading)

\* カンヨウ
Kanyou == <<12459, 12531, 12520, 12454>>

\* reading cells: empty, カンヨウ, "x" (not kana), ーヽ (no reiteration of ー),
\* "-" (ignored, no mora)
PronTexts == {<<>>, Kanyou, <<120>>, <<LongVowel, IterationMark>>, <<HYPHEN>>}

\* か, 漢, かゞ, ーヽ
PronTitles ==
    {<<12363>>, <<28450>>, <<12363, 12446>>, <<LongVowel, IterationMark>>}

\* parse.rs:139-145: "h", "a", "o", "", a number
AccentLists ==
    {<<>>, <<Numeric(0), Numeric(1)>>, <<Odaka, NoAccent, Numeric(1)>>,
     <<Numeric(1), Numeric(1), Numeric(1), Numeric(5)>>}

\* parse.rs:147-153
LocationLists == {<<>>, <<TRUE>>, <<FALSE, TRUE, FALSE, TRUE>>}

\* the calls with up to n reading cells
AccentCalls(n) ==
    {[title |-> t, readings |-> r, accents |-> a, accent_locations |-> l] :
        t \in PronTitles, r \in SeqsUpTo(PronTexts, n),
        a \in AccentLists, l \in LocationLists}

InitA ==
    /\ a_in \in AccentCalls(MaxPronLen)
    /\ a_pc = "start"
    /\ a_readings = <<>>
    /\ a_accents = <<>>
    /\ a_last = None
    /\ a_i = 0
    /\ a_infos = <<>>
    /\ IdleFT
    /\ IdleTP
    /\ IdleK
    /\ IdleD
    /\ IdleM

\* infer.rs:200-222
A_Begin ==
    /\ a_pc = "start"
    /\ LET readings == [j \in 1..Len(a_in.readings) |-> classify(a_in.readings[j])]
           max_len == IF Len(readings) >= Len(a_in.accents)
                      THEN Len(readings) ELSE Len(a_in.accents)
           last_reading == normalize_and_expand(a_in.title)
       IN  IF \/ \E j \in 1..Len(readings) : IsAbort(readings[j])
              \/ IsAbort(last_reading)
           THEN /\ a_pc' = "aborted"
                /\ UNCHANGED <<a_readings, a_accents, a_last>>
           ELSE /\ a_pc' = "loop"
                /\ a_readings' = resize(readings, max_len, Fallback)
                /\ a_accents' = resize(a_in.accents, max_len, NoAccent)
                /\ a_last' = last_reading
    /\ UNCHANGED <<a_in, a_i, a_infos, ftVars, tpVars, kVars, dVars, mVars>>

\* infer.rs:223-250, the body of the loop for i = a_i
A_Iter ==
    /\ a_pc = "loop"
    /\ a_i < Len(a_readings)
    /\ LET reading == a_readings[a_i + 1]
           accent == a_accents[a_i + 1]
           last_reading == IF reading.kind = "Error" THEN after_error(a_last)
                           ELSE IF reading.kind = "Actual" THEN Some(reading.val)
                           ELSE a_last
           skipped ==
               \/ reading.kind = "Error"                               \* 227
               \/ ~last_reading.some                                   \* 235
               \/ /\ a_i < Len(a_in.accent_locations)
                  /\ a_in.accent_locations[a_i + 1]                    \* 239-241
       IN  /\ a_last' = last_reading
           /\ a_infos' = IF skipped THEN a_infos
                         ELSE Append(a_infos,
                                  AccentInfo(last_reading.val,
                                      resolve_accent(accent, last_reading.val)))
    /\ a_i' = a_i + 1
    /\ UNCHANGED <<a_in, a_pc, a_readings, a_accents, ftVars, tpVars, kVars, dVars, mVars>>

\* infer.rs:252-260
A_Finish ==
    /\ a_pc = "loop"
    /\ a_i = Len(a_readings)
    /\ a_pc' = IF accents_within_duration(a_infos) THEN "returned" ELSE "aborted"
    /\ UNCHANGED <<a_in, a_readings, a_accents, a_last, a_i, a_infos,
                   ftVars, tpVars, kVars, dVars, mVars>>

NextA == A_Begin \/ A_Iter \/ A_Finish

SpecA == InitA /\ [][NextA]_vars

(***************************************************************************)
(* main and process (main.rs:18-206): the accumulation table.  A call of   *)
(* infer_accent or of infer_decompositions is taken with what it returns,  *)
(* or with its panic; the table is keyed by title, and by reading within a *)
(* title.                                                                  *)
(***************************************************************************)
\* main.rs:121-136
Redirect(title, ja_kanjitabs, sees) ==
    [title |-> title, ja_kanjitabs |-> ja_kanjitabs, sees |-> sees]
WordInfo(reading_infos, readings) ==
    [reading_infos |-> reading_infos, readings |-> readings]
ReadingInfo(accents, decomposition) ==
    [accents |-> accents, decomposition |-> decomposition]

\* HashMap::new()
EmptyMap == [t \in {} |-> t]

\* the map with v at k
insert(map, k, v) ==
    [x \in DOMAIN map \cup {k} |-> IF x = k THEN v ELSE map[x]]

\* HashMap::entry(k).or_insert(v): the map with the entry in place
or_insert(map, k, v) == IF k \in DOMAIN map THEN map ELSE insert(map, k, v)

\* main.rs:173-185: the accent of each info that has one is pushed
RECURSIVE push_accents(_, _)
push_accents(reading_infos, infos) ==
    IF infos = <<>> THEN reading_infos
    ELSE LET i == Head(infos)
             e == or_insert(reading_infos, i.reading, ReadingInfo(<<>>, None))
         IN  push_accents(
                 IF i.accent.some
                 THEN insert(e, i.reading,
                             [e[i.reading] EXCEPT !.accents = Append(@, i.accent.val)])
                 ELSE reading_infos,
                 Tail(infos))

\* lines 201-203 without the test of is_none
store_decomposition_overwrite(reading_infos, atoms) ==
    LET reading == reading_of(atoms)
        e == or_insert(reading_infos, reading, ReadingInfo(<<>>, None))
    IN  insert(e, reading, [e[reading] EXCEPT !.decomposition = Some(atoms)])

\* main.rs:194-203, and the same at 87-102
store_decomposition(reading_infos, atoms) ==
    LET reading == reading_of(atoms)
        e == or_insert(reading_infos, reading, ReadingInfo(<<>>, None))
    IN  IF ~e[reading].decomposition.some
        THEN insert(e, reading, [e[reading] EXCEPT !.decomposition = Some(atoms)])
        ELSE e

\* main.rs:193-205: the kanji tables of an article, each with what
\* infer_decompositions returned for it
RECURSIVE store_decompositions(_, _)
store_decompositions(reading_infos, returned) ==
    IF returned = <<>> THEN reading_infos
    ELSE store_decompositions(
             IF Head(returned).res = "Ok"
             THEN store_decomposition(reading_infos, Head(returned).atoms)
             ELSE reading_infos,
             Tail(returned))

Panics(returned) == \E j \in 1..Len(returned) : returned[j].res = "abort"

\* main.rs:138-206; art is what the loop of lines 144-159 has gathered
process(title, art, decompositions, redirects, info) ==
    IF art.romaji
    THEN [info |-> info, redirects |-> redirects, abort |-> FALSE]  \* line 146
    ELSE IF art.sees # <<>> /\ art.ja_poss = <<>> /\ art.ja_prons = <<>>
    THEN [info |-> info,
          redirects |-> IF art.ja_kanjitabs # <<>>
                        THEN Append(redirects,
                                    Redirect(title, art.ja_kanjitabs, art.sees))
                        ELSE redirects,
          abort |-> FALSE]                                          \* 161-166
    ELSE IF Panics(art.ja_prons) \/ Panics(decompositions)
    THEN [info |-> info, redirects |-> redirects, abort |-> TRUE]
    ELSE LET entered == or_insert(info, title, WordInfo(EmptyMap, {}))
             word_info == entered[title]
             infos == Concat([j \in 1..Len(art.ja_prons) |-> art.ja_prons[j].infos])
             readings ==
                 {infos[j].reading : j \in 1..Len(infos)}
                     \cup UNION {art.ja_poss[j] : j \in 1..Len(art.ja_poss)}
             accented == push_accents(word_info.reading_infos, infos)
             stored == store_decompositions(accented, decompositions)
         IN  [info |-> insert(entered, title,
                              WordInfo(stored, word_info.readings \cup readings)),
              redirects |-> redirects,
              abort |-> FALSE]

\* main.rs:78-84: the first of sees that the table has
RECURSIVE first_seen(_, _)
first_seen(sees, info) ==
    IF sees = <<>> THEN None
    ELSE IF Head(sees) \in DOMAIN info THEN Some(Head(sees))
    ELSE first_seen(Tail(sees), info)

\* main.rs:86-105
RECURSIVE resolve_tabs(_, _, _)
resolve_tabs(title, returned, info) ==
    IF returned = <<>> THEN info
    ELSE IF Head(returned).res # "Ok" THEN resolve_tabs(title, Tail(returned), info)
    ELSE LET entered == or_insert(info, title, WordInfo(EmptyMap, {}))
         IN  resolve_tabs(title, Tail(returned),
                 insert(entered, title,
                        [entered[title] EXCEPT
                            !.reading_infos =
                                store_decomposition(@, Head(returned).atoms)]))

\* main.rs:77-107, one redirect
resolve(redirect, decompositions, info) ==
    IF first_seen(redirect.sees, info).some
    THEN resolve_tabs(redirect.title, decompositions, info)
    ELSE info

\* main.rs:109-111
assertion(info) ==
    \A t \in DOMAIN info :
        \A r \in DOMAIN info[t].reading_infos :
            \/ info[t].reading_infos[r].accents # <<>>
            \/ info[t].reading_infos[r].decomposition.some

\* 漢, 字
MainTitles == {<<28450>>, <<23383>>}

\* what infer_accent can give for a ja-pron: a panic, or accent infos
AccentOutcomes ==
    {[res |-> "abort", infos |-> <<>>],
     [res |-> "Ok", infos |-> <<AccentInfo(<<KataKa>>, None)>>],
     [res |-> "Ok", infos |-> <<AccentInfo(<<KataKa>>, Some(1))>>]}

\* what infer_decompositions can give for a kanji table: an error, a panic, or
\* atoms; two of the three have the same reading
DecompositionOutcomes ==
    {[res |-> "Err", atoms |-> <<>>], [res |-> "abort", atoms |-> <<>>],
     [res |-> "Ok", atoms |-> <<Ruby(1, <<KataKa>>)>>],
     [res |-> "Ok", atoms |-> <<Kana(<<KataKa>>)>>],
     [res |-> "Ok", atoms |-> <<Ruby(1, <<KataGa>>)>>]}

DecompositionsOf(n) == [1..n -> DecompositionOutcomes]

Articles ==
    {[romaji |-> TRUE, sees |-> <<>>, ja_prons |-> <<>>, ja_poss |-> <<>>,
      ja_kanjitabs |-> <<>>]}
    \cup
    {[romaji |-> FALSE, sees |-> s, ja_prons |-> p, ja_poss |-> q,
      ja_kanjitabs |-> k] :
        s \in {<<>>, <<<<28450>>>>, <<<<23383>>, <<28450>>>>},
        p \in {<<>>} \cup {<<o>> : o \in AccentOutcomes},
        q \in {<<>>, <<{<<KataKa>>}>>},
        k \in {<<>>, <<"ja-kanjitab">>, <<"ja-kanjitab", "ja-kanjitab">>}}

InitM ==
    /\ m_info = EmptyMap
    /\ m_redirects = <<>>
    /\ m_pc = "reading"
    /\ m_count = 0
    /\ IdleFT
    /\ IdleTP
    /\ IdleK
    /\ IdleD
    /\ IdleA

\* main.rs:24-75, one article with one etymology: one call of process
M_Process ==
    /\ m_pc = "reading"
    /\ m_count < MaxArticles
    /\ \E title \in MainTitles, art \in Articles :
          \E decompositions \in DecompositionsOf(Len(art.ja_kanjitabs)) :
              LET r == process(title, art, decompositions, m_redirects, m_info)
              IN  /\ m_info' = r.info
                  /\ m_redirects' = r.redirects
                  /\ m_pc' = IF r.abort THEN "aborted" ELSE "reading"
    /\ m_count' = m_count + 1
    /\ UNCHANGED <<ftVars, tpVars, kVars, dVars, aVars>>

\* main.rs:25-27: the input has ended
M_EndOfInput ==
    /\ m_pc = "reading"
    /\ m_pc' = "resolving"
    /\ UNCHANGED <<m_info, m_redirects, m_count, ftVars, tpVars, kVars, dVars, aVars>>

\* main.rs:77-107, one iteration of 'redirects
M_Resolve ==
    /\ m_pc = "resolving"
    /\ m_redirects # <<>>
    /\ \E decompositions \in DecompositionsOf(Len(Head(m_redirects).ja_kanjitabs)) :
          IF /\ first_seen(Head(m_redirects).sees, m_info).some
             /\ Panics(decompositions)
          THEN /\ m_pc' = "aborted"
               /\ UNCHANGED <<m_info, m_redirects>>
          ELSE /\ m_info' = resolve(Head(m_redirects), decompositions, m_info)
               /\ m_redirects' = Tail(m_redirects)
               /\ m_pc' = m_pc
    /\ UNCHANGED <<m_count, ftVars, tpVars, kVars, dVars, aVars>>

\* main.rs:109-111
M_Assert ==
    /\ m_pc = "resolving"
    /\ m_redirects = <<>>
    /\ m_pc' = IF assertion(m_info) THEN "done" ELSE "aborted by the assertion"
    /\ UNCHANGED <<m_info, m_redirects, m_count, ftVars, tpVars, kVars, dVars, aVars>>

NextM == M_Process \/ M_EndOfInput \/ M_Resolve \/ M_Assert

SpecM == InitM /\ [][NextM]_vars

(***************************************************************************)
(* What the scanner is meant to yield (spec.md, 4.1): a reference scan     *)
(* that pairs "{{" with "}}" and records the outermost invocations.        *)
(***************************************************************************)
IsPrefix(a, b) == Len(a) <= Len(b) /\ SubSeq(b, 1, Len(a)) = a

\* p: the next character (from 1); depth: open invocations; open: where the
\* outermost one opened; bar: its first "|" (0: none yet); acc: pairs so far
RECURSIVE RefScan(_, _, _, _, _, _)
RefScan(d, p, depth, open, bar, acc) ==
    IF p > Len(d) THEN acc
    ELSE IF IsPrefixAt(d, p - 1, <<LBRACE, LBRACE>>)
    THEN RefScan(d, p + 2, depth + 1, IF depth = 0 THEN p ELSE open,
                 IF depth = 0 THEN 0 ELSE bar, acc)
    ELSE IF IsPrefixAt(d, p - 1, <<RBRACE, RBRACE>>)
    THEN IF depth = 0 THEN acc
         ELSE IF depth = 1
         THEN RefScan(d, p + 2, 0, 0, 0,
                      Append(acc, IF bar = 0
                                  THEN <<SubSeq(d, open + 2, p - 1), <<>>>>
                                  ELSE <<SubSeq(d, open + 2, bar - 1),
                                         SubSeq(d, bar + 1, p - 1)>>))
         ELSE RefScan(d, p + 2, depth - 1, open, bar, acc)
    ELSE IF d[p] = PIPE /\ depth = 1 /\ bar = 0
    THEN RefScan(d, p + 1, depth, open, p, acc)
    ELSE RefScan(d, p + 1, depth, open, bar, acc)

OutermostTemplates(d) == RefScan(d, 1, 0, 0, 0, <<>>)

Exhausted == ft_nones >= 1

(***************************************************************************)
(* C1: on a document of well-formed invocations FindTemplates yields       *)
(* exactly the outermost invocations, in source order, each once, as       *)
(* (name, raw argument text); a nested invocation is never yielded on its  *)
(* own and stays verbatim in the outer one's argument text.                *)
(***************************************************************************)
C1_OutermostInOrder ==
    ft.s \in WellFormedDocs \cup {DocFooBar} =>
        /\ IsPrefix(ft_items, OutermostTemplates(ft.s))
        /\ Exhausted => ft_items = OutermostTemplates(ft.s)

(***************************************************************************)
(* C3: FindTemplates never panics; a call that meets "}}" at depth zero    *)
(* returns None, keeps the pairs yielded before it and sets the latch, and *)
(* once the latch is set every call returns None and yields nothing;       *)
(* "{{foo}}}" yields (foo, "") and then nothing.                           *)
(***************************************************************************)
Foo == <<102, 111, 111>>

C3_StopsPermanently ==
    /\ [][/\ ~ft_panic'
          /\ FindTemplates_loop(ft).how = "underflow" /\ ~ft.is_invalid =>
                ft'.is_invalid /\ ft_ret' = None /\ ft_items' = ft_items
          /\ ft.is_invalid =>
                ft'.is_invalid /\ ft_ret' = None /\ ft_items' = ft_items]_vars
    /\ [](ft.s = DocFooExtra /\ Exhausted => ft_items = << <<Foo, <<>>>> >>)

\* the scanner has stopped on a "}}" met at depth zero, after yielding, and
\* has been called again since
C3_Witness ==
    /\ ft.is_invalid
    /\ ft_nones > 1
    /\ Len(ft_items) > 0
    /\ ft.char_indices >= 2
    /\ SubSeq(ft.s, ft.char_indices - 1, ft.char_indices) = <<RBRACE, RBRACE>>
    /\ \A k \in 1..Len(ft.s) : ft.s[k] # LT

(***************************************************************************)
(* What the splitter is meant to yield (spec.md, 4.2): a reference scan    *)
(* that pairs "{{" with "}}" and "[[" with "]]" and cuts at every "|" that *)
(* lies outside all pairs.                                                 *)
(***************************************************************************)
\* p: the next character (from 1); stack: the open pairs; from: where the
\* current parameter starts; acc: the parameters cut so far
RECURSIVE RefSplit(_, _, _, _, _)
RefSplit(d, p, stack, from, acc) ==
    IF p > Len(d)
    THEN [balanced |-> stack = <<>>, parts |-> Append(acc, SubSeq(d, from, Len(d)))]
    ELSE IF IsPrefixAt(d, p - 1, <<LBRACE, LBRACE>>)
    THEN RefSplit(d, p + 2, <<LBRACE>> \o stack, from, acc)
    ELSE IF IsPrefixAt(d, p - 1, <<LBRACKET, LBRACKET>>)
    THEN RefSplit(d, p + 2, <<LBRACKET>> \o stack, from, acc)
    ELSE IF IsPrefixAt(d, p - 1, <<RBRACE, RBRACE>>)
    THEN IF stack # <<>> /\ Head(stack) = LBRACE
         THEN RefSplit(d, p + 2, Tail(stack), from, acc)
         ELSE [balanced |-> FALSE, parts |-> acc]
    ELSE IF IsPrefixAt(d, p - 1, <<RBRACKET, RBRACKET>>)
    THEN IF stack # <<>> /\ Head(stack) = LBRACKET
         THEN RefSplit(d, p + 2, Tail(stack), from, acc)
         ELSE [balanced |-> FALSE, parts |-> acc]
    ELSE IF d[p] = PIPE /\ stack = <<>>
    THEN RefSplit(d, p + 1, stack, p + 1, Append(acc, SubSeq(d, from, p - 1)))
    ELSE RefSplit(d, p + 1, stack, from, acc)

Balanced(d) == RefSplit(d, 1, <<>>, 1, <<>>).balanced
TopLevelParameters(d) ==
    IF d = <<>> THEN <<>> ELSE RefSplit(d, 1, <<>>, 1, <<>>).parts

CommentFree(d) == \A k \in 0..Len(d) : ~IsPrefixAt(d, k, CommentOpen)

SplitExhausted == tp_nones >= 1

(***************************************************************************)
(* C2: on a comment-free blob whose "{{"/"}}" and "[["/"]]" are balanced   *)
(* TemplateParameters yields, in source order, exactly the substrings      *)
(* delimited by the "|" outside every pair, a final empty one included     *)
(* when the blob ends with such a "|".                                     *)
(***************************************************************************)
C2_SplitsAtTopLevelPipes ==
    CommentFree(tp.s) /\ Balanced(tp.s) =>
        /\ IsPrefix(tp_items, TopLevelParameters(tp.s))
        /\ SplitExhausted => tp_items = TopLevelParameters(tp.s)

(***************************************************************************)
(* C6: infer_accent handles the reading cells in index order with a        *)
(* fallback state: an empty (or padded) cell that is not flagged yields an *)
(* entry with the reading of the nearest preceding non-empty cell that     *)
(* normalized (the normalized title when no non-empty cell precedes it);   *)
(* a non-empty cell that fails to normalize, and the empty cells after it, *)
(* yield no entry.                                                         *)
(***************************************************************************)
PronLen ==
    IF Len(a_in.readings) >= Len(a_in.accents)
    THEN Len(a_in.readings) ELSE Len(a_in.accents)

\* the reading cell, the accent code and the flag of index i (from 1)
PronCell(i) == IF i <= Len(a_in.readings) THEN a_in.readings[i] ELSE <<>>
PronAccent(i) == IF i <= Len(a_in.accents) THEN a_in.accents[i] ELSE NoAccent
PronFlagged(i) == i <= Len(a_in.accent_locations) /\ a_in.accent_locations[i]

\* the nearest non-empty cell at or before index i, 0 if there is none
NearestNonEmpty(i) ==
    IF \E j \in 1..i : PronCell(j) # <<>>
    THEN CHOOSE j \in 1..i :
             PronCell(j) # <<>> /\ \A k \in (j + 1)..i : PronCell(k) = <<>>
    ELSE 0

\* the reading index i resolves to
ResolvedReading(i) ==
    IF NearestNonEmpty(i) = 0 THEN normalize_and_expand(a_in.title)
    ELSE normalize_and_expand(PronCell(NearestNonEmpty(i)))

\* the entries of the indices 1..n, in index order
RECURSIVE EntriesUpTo(_)
EntriesUpTo(n) ==
    IF n = 0 THEN <<>>
    ELSE IF ResolvedReading(n).some /\ ~PronFlagged(n)
    THEN Append(EntriesUpTo(n - 1),
                AccentInfo(ResolvedReading(n).val,
                           resolve_accent(PronAccent(n), ResolvedReading(n).val)))
    ELSE EntriesUpTo(n - 1)

\* as claimed, an unflagged cell with no non-empty cell at or before it yields
\* an entry whatever the title: the number of entries returned
ClaimedToYield(i) ==
    /\ ~PronFlagged(i)
    /\ NearestNonEmpty(i) = 0 \/ ResolvedReading(i).some

Idempotent == k_out.some /\ k_out.val = k_norm.val

C7_IdempotentAnyPredicates == k_pc = "again" => Idempotent

\* the characters try_katakanify pushes when it neither skips nor keeps
KatakanaOutput ==
    (12449..12538) \cup (12442..12444) \cup {12540, 12541, 12542}
        \cup {110881, 110933} \cup (110948..110951)

IgnoresNoKatakana(should_ignore) ==
    \A c \in KatakanaOutput : ~Holds(should_ignore, c)

\* C7, amended: for every s and every pair of predicates whose should_ignore
\* holds of no character of the katakana-normalized range (as with every pair
\* the program passes), try_katakanify(s) = Some(t) implies
\* try_katakanify(t) = Some(t).
C7_Idempotent ==
    k_pc = "again" /\ IgnoresNoKatakana(k_in.should_ignore) => Idempotent

\* a reading with hiragana and an ignored character, normalized to something
\* else, and normalized again
C7_Witness ==
    /\ k_pc = "again"
    /\ k_in.should_ignore = Closure("reading_ignore")
    /\ \E j \in 1..Len(k_in.reading) : k_in.reading[j] \in 12353..12438
    /\ \E j \in 1..Len(k_in.reading) : k_in.reading[j] = HYPHEN
    /\ Len(k_norm.val) >= 2
    /\ Idempotent

(***************************************************************************)
(* C8: for a reading that try_katakanify accepts with should_keep always   *)
(* false, the duration of the normalized string is at most the number of   *)
(* characters of the reading, and equal to it when the reading has none of *)
(* the small vowel/glide characters and no ignored character.              *)
(***************************************************************************)
\* the small characters the claim lists: ぁぃぅぇぉ ァィゥェォ ゃゅょ ャュョ and
\* the supplementary small kana
ListedSmall ==
    {12353, 12355, 12357, 12359, 12361, 12449, 12451, 12453, 12455, 12457,
     12419, 12421, 12423, 12515, 12517, 12519}
        \cup (110928..110930) \cup (110948..110950)

\* with the small wa, ゎ (U+308E) and ヮ (U+30EE)
ListedSmallAndWa == ListedSmall \cup {12430, 12526}

NoneOf(S) ==
    \A j \in 1..Len(k_in.reading) :
        k_in.reading[j] \notin S /\ ~Holds(k_in.should_ignore, k_in.reading[j])

Measured == k_pc = "measured" /\ k_in.should_keep = Closure("never")

C8_DurationAsClaimed ==
    Measured =>
        /\ k_out <= Len(k_in.reading)
        /\ NoneOf(ListedSmall) => k_out = Len(k_in.reading)

\* C8, amended: ... and equal to it when the reading has none of the small
\* vowel/glide characters, the small wa (ゎ, ヮ) among them, and no ignored
\* character.
C8_Duration ==
    Measured =>
        /\ k_out <= Len(k_in.reading)
        /\ NoneOf(ListedSmallAndWa) => k_out = Len(k_in.reading)

\* a reading of three characters, none small and none ignored, measured as
\* three moras
C8_Witness ==
    /\ Measured
    /\ Len(k_in.reading) = 3
    /\ NoneOf(ListedSmallAndWa)
    /\ k_out = 3

(***************************************************************************)
(* C9: expand_katakana returns None whenever a chain of iteration marks is *)
(* longer than the run of kana clusters that immediately precedes it; a    *)
(* lone voiced iteration mark at the very start fails.                     *)
(***************************************************************************)
\* the clusters of s as try_consume_kana delimits them, each as "kana",
\* "mark" (a bare iteration mark) or "other" (no kana)
RECURSIVE ClusterKinds(_, _)
ClusterKinds(s, p) ==
    IF p >= Len(s) THEN <<>>
    ELSE LET x == try_consume_kana(s, p + 1)
         IN  IF ~x.some THEN <<"other">> \o ClusterKinds(s, p + 1)
             ELSE IF x.val \in {<<IterationMark>>, <<VoicedIterationMark>>}
             THEN <<"mark">> \o ClusterKinds(s, p + 1)
             ELSE <<"kana">> \o ClusterKinds(s, p + Len(x.val))

\* some chain of marks is longer than the unbroken run of kana before it
ChainTooLong(s) ==
    LET T == ClusterKinds(s, 0)
    IN  \E a \in 1..Len(T) :
            /\ T[a] = "mark"
            /\ a = 1 \/ T[a - 1] # "mark"
            /\ LET chain == CHOOSE n \in 1..Len(T) :
                                /\ \A j \in a..(a + n - 1) : j <= Len(T) /\ T[j] = "mark"
                                /\ a + n > Len(T) \/ T[a + n] # "mark"
                   run == CHOOSE n \in 0..Len(T) :
                              /\ \A j \in (a - n)..(a - 1) : j >= 1 /\ T[j] # "other"
                              /\ a - n = 1 \/ a - n < 1 \/ T[a - n - 1] = "other"
               IN  chain > run

C9_ShortLookbackFails ==
    k_pc = "expanded" /\ ChainTooLong(k_norm.val) => ~k_out.some /\ ~IsAbort(k_out)

(***************************************************************************)
(* C4: round trip: whenever infer_decompositions returns Ok(d),            *)
(* d.reading() is equal to some member of the candidate-reading set.       *)
(***************************************************************************)
C4_RoundTrip == d_pc = "read" => d_reading \in d_in.candidates

(***************************************************************************)
(* C5: a kanji-table with fewer reading cells than the title has           *)
(* ideographs makes infer_decompositions fail with Incomplete.  As         *)
(* claimed, for any title and any table:                                   *)
(***************************************************************************)
Decided == d_pc \notin {"idle", "start"}

RECURSIVE Covered(_)
Covered(readings) ==
    IF readings = <<>> THEN 0
    ELSE (IF Head(readings).count >= 1 THEN Head(readings).count ELSE 1)
         + Covered(Tail(readings))

KataTitle ==
    try_katakanify(d_in.title, Closure("title_ignore"), Closure("is_ideograph"))

\* the lengths of the maximal runs of ideographs of t, in order
RECURSIVE IdeographRuns(_, _)
IdeographRuns(t, run) ==
    IF t = <<>> THEN (IF run > 0 THEN <<run>> ELSE <<>>)
    ELSE IF is_ideograph(Head(t)) THEN IdeographRuns(Tail(t), run + 1)
    ELSE (IF run > 0 THEN <<run>> ELSE <<>>) \o IdeographRuns(Tail(t), 0)

\* the cells, taken in order, each lie within one run of ideographs, until
\* the cells or the runs are used up
RECURSIVE SpansFit(_, _)
SpansFit(runs, readings) ==
    IF runs = <<>> \/ readings = <<>> THEN TRUE
    ELSE LET m == IF Head(readings).count >= 1 THEN Head(readings).count ELSE 1
         IN  /\ m <= Head(runs)
             /\ SpansFit((IF m = Head(runs) THEN <<>> ELSE <<Head(runs) - m>>)
                             \o Tail(runs),
                         Tail(readings))

\* nothing fails or aborts before the table is used up: the table keeps its
\* invariant, the title has no free-standing sound mark, every cell's reading
\* (or alteration) and omission normalizes, and no span crosses a
\* non-ideograph
CleanCells ==
    /\ Len(d_in.alterations) <= Len(d_in.readings)
    /\ Len(d_in.omissions) <= Len(d_in.readings)
    /\ \A j \in 1..Len(KataTitle.val) : KataTitle.val[j] \notin 12442..12444
    /\ \A j \in 1..Len(d_in.readings) :
          CellReading(EffectiveReading(d_in, j - 1)).some
    /\ \A j \in 1..Len(d_in.omissions) :
          d_in.omissions[j].some =>
              try_katakanify(d_in.omissions[j].val, Closure("never"),
                             Closure("never")).some
    /\ SpansFit(IdeographRuns(KataTitle.val, 0), d_in.readings)

TooFewCells ==
    /\ d_in.readings # <<>>
    /\ KataTitle.some
    /\ Covered(d_in.readings) < CountIdeographs(d_in.title)

C10_SumIsIdeographCount ==
    d_result = "Ok" => RubySum(d_atoms) = CountIdeographs(d_in.title)

\* C10, amended: the sum of character_count over the Ruby atoms equals the
\* number of ideographs of the title before the substitutions are applied; in
\* the value returned it equals that number plus the number of substitutions,
\* each substituted atom having become a Ruby atom of character_count 1.
C10_SumOfCounts ==
    /\ d_pc = "walked" => RubySum(d_atoms) = CountIdeographs(d_in.title)
    /\ d_result = "Ok" =>
          RubySum(d_atoms) = CountIdeographs(d_in.title) + Len(d_repl)

\* a value returned for a title with an ideograph and a substituted ヶ
C10_Witness ==
    /\ d_result = "Ok"
    /\ CountIdeographs(d_in.title) >= 1
    /\ Len(d_repl) >= 1
    /\ \E j \in 1..Len(d_atoms) :
          d_atoms[j] = Ruby(1, <<KataGa>>) /\ d_repl[1].i + 1 = j

(***************************************************************************)
(* C11: TemplateParameters on a blob of length zero yields nothing, and on *)
(* every non-empty blob yields at least one parameter, also when the blob  *)
(* has no "|".  As claimed, for every non-empty blob:                      *)
(***************************************************************************)
C11_NonEmptyYields ==
    /\ tp.s = <<>> => tp_items = <<>>
    /\ SplitExhausted /\ tp.s # <<>> => Len(tp_items) >= 1

\* C11, amended: a blob of length zero yields nothing, and every non-empty
\* blob on which the iterator does not stop as invalid (a closing sequence met
\* at depth zero, a comment that is not terminated) yields at least one
\* parameter, also when the blob has no "|".
C11_NonEmptyYieldsUnlessInvalid ==
    /\ tp.s = <<>> => tp_items = <<>>
    /\ SplitExhausted /\ tp.s # <<>> /\ ~tp.is_invalid => Len(tp_items) >= 1

\* a blob without "|" that ends with a comment, given back whole as its one
\* parameter
C11_Witness ==
    /\ SplitExhausted /\ ~tp.is_invalid
    /\ tp.s = <<LetterA>> \o CommentOpen \o CommentClose
    /\ tp_items = << <<LetterA>> >>

(***************************************************************************)
(* C12: in FindTemplates the contents of a comment never affect the depth  *)
(* or the name/argument boundaries, and no emitted name or raw argument    *)
(* text contains any part of a comment.                                    *)
(***************************************************************************)
\* where the first "-->" at or after character k of d starts (-1 if none)
RECURSIVE CloseAt(_, _)
CloseAt(d, k) ==
    IF k + Len(CommentClose) > Len(d) THEN -1
    ELSE IF IsPrefixAt(d, k, CommentClose) THEN k
    ELSE CloseAt(d, k + 1)

\* d without its comments
RECURSIVE StripComments(_)
StripComments(d) ==
    IF d = <<>> THEN <<>>
    ELSE IF IsPrefixAt(d, 0, CommentOpen)
    THEN IF CloseAt(d, Len(CommentOpen)) = -1 THEN <<>>
         ELSE StripComments(SubSeq(d, CloseAt(d, Len(CommentOpen))
                                          + Len(CommentClose) + 1, Len(d)))
    ELSE <<Head(d)>> \o StripComments(Tail(d))

\* everything FindTemplates yields from state f on
RECURSIVE ScanAll(_, _)
ScanAll(f, acc) ==
    LET r == FindTemplates_next(f)
    IN  IF r.panic \/ ~r.ret.some THEN acc
        ELSE ScanAll(r.self, Append(acc, r.ret.val))

HasComment(text) == \E k \in 0..Len(text) : IsPrefixAt(text, k, CommentOpen)

\* no emitted text has a comment in it, and an invocation with comments is
\* yielded as the same invocation without them is
C12_CommentsInvisible ==
    /\ \A j \in 1..Len(ft_items) :
          ~HasComment(ft_items[j][1]) /\ ~HasComment(ft_items[j][2])
    /\ ft.s \in CommentDocs /\ Exhausted =>
          ft_items = ScanAll(FindTemplates_new(StripComments(ft.s)), <<>>)

(***************************************************************************)
(* C13: a parameter in which a terminated comment occurs is emitted as one *)
(* value, the text before the comment followed by the text after its       *)
(* "-->"; no emitted value contains "<!--" or "-->".                       *)
(***************************************************************************)
Contains(text, pat) == \E k \in 0..Len(text) : IsPrefixAt(text, k, pat)

\* the values with a "|" between each two
RECURSIVE JoinPipes(_)
JoinPipes(items) ==
    IF items = <<>> THEN <<>>
    ELSE IF Len(items) = 1 THEN items[1]
    ELSE items[1] \o <<PIPE>> \o JoinPipes(Tail(items))

\* the values are the blob's text without its comments (a final "|" yields no
\* last empty value)
CommentsRemoved ==
    SplitExhausted /\ ~tp.is_invalid /\ ~tp_panic =>
        \/ JoinPipes(tp_items) = StripComments(tp.s)
        \/ JoinPipes(tp_items) \o <<PIPE>> = StripComments(tp.s)

\* as claimed
C13_NoCommentDelimiters ==
    /\ CommentsRemoved
    /\ \A j \in 1..Len(tp_items) :
          ~Contains(tp_items[j], CommentOpen) /\ ~Contains(tp_items[j], CommentClose)

\* as the code has it: a "-->" that closes no comment is text like any other
C13_CommentsRemoved ==
    /\ CommentsRemoved
    /\ \A j \in 1..Len(tp_items) :
          Contains(tp_items[j], CommentClose) => Contains(StripComments(tp.s), CommentClose)

C13_Witness ==
    /\ SplitExhausted /\ ~tp.is_invalid
    /\ tp.s = <<LetterA>> \o CommentOpen \o CommentClose \o <<HiraA>>
    /\ tp_items = << <<LetterA, HiraA>> >>

(***************************************************************************)
(* C14: in TemplateParameters a closing sequence ("}}", "]]" or "}}}") met *)
(* at depth zero is a permanent terminal failure: that call and every      *)
(* later call return None, the parameter being scanned and the later ones  *)
(* are not emitted, and no call panics.                                    *)
(***************************************************************************)
\* the iterator has just consumed a closing sequence and is at depth zero
AfterClosing(t) ==
    /\ t.depth = 0
    /\ t.char_indices >= 2
    /\ SubSeq(t.s, t.char_indices - 1, t.char_indices)
           \in {<<RBRACE, RBRACE>>, <<RBRACKET, RBRACKET>>}

C14_Step ==
    /\ tp'.is_invalid /\ AfterClosing(tp') =>
          /\ ~tp_ret'.some
          /\ tp_items' = tp_items
    /\ tp.is_invalid =>
          /\ tp' = tp
          /\ ~tp_ret'.some
          /\ tp_items' = tp_items

C14_TerminalFailure == [](~tp_panic) /\ [][C14_Step]_vars

C14_Witness ==
    /\ tp.s = <<LetterA, PIPE, RBRACKET, RBRACKET, LetterA>>
    /\ tp.is_invalid
    /\ tp_nones >= 2
    /\ tp_items = << <<LetterA>> >>

(***************************************************************************)
(* C15: on katakana-normalized input expand_katakana returns None, without *)
(* aborting, whenever a voiced iteration mark refers to a kana cluster     *)
(* that has no voiced counterpart (vowels, the moraic nasal, the small     *)
(* tsu, the long-vowel mark, small kana, supplementary-plane kana).        *)
(***************************************************************************)
\* the kana that take a dakuten or carry one: ウ ヴ, カ..ド without ッ, ハ..ポ,
\* ワ ヰ ヱ ヲ and ヷ ヸ ヹ ヺ
HasVoicedCounterpart(c) ==
    \/ c \in {12454, 12532}
    \/ c \in 12459..12489 /\ c # 12483
    \/ c \in 12495..12509
    \/ c \in 12527..12530
    \/ c \in 12535..12538

\* the clusters of s as try_consume_kana delimits them (a character that
\* starts no kana cluster is a cluster of kind "other")
RECURSIVE Clusters(_, _)
Clusters(s, p) ==
    IF p >= Len(s) THEN <<>>
    ELSE LET x == try_consume_kana(s, p + 1)
         IN  IF ~x.some
             THEN <<[kind |-> "other", val |-> <<s[p + 1]>>]>> \o Clusters(s, p + 1)
             ELSE IF x.val \in {<<IterationMark>>, <<VoicedIterationMark>>}
             THEN <<[kind |-> "mark", val |-> x.val]>> \o Clusters(s, p + 1)
             ELSE <<[kind |-> "kana", val |-> x.val]>> \o Clusters(s, p + Len(x.val))

\* a single voiced mark directly after a cluster that cannot be voiced
VoicesUnvoiceable(s) ==
    LET T == Clusters(s, 0)
    IN  \E a \in 1..(Len(T) - 1) :
            /\ T[a].kind = "kana"
            /\ ~HasVoicedCounterpart(Head(T[a].val))
            /\ T[a + 1].val = <<VoicedIterationMark>>
            /\ a + 2 > Len(T) \/ T[a + 2].kind # "mark"

C15_UnvoiceableFails ==
    k_pc = "expanded" /\ VoicesUnvoiceable(k_norm.val) =>
        ~k_out.some /\ ~IsAbort(k_out)

(***************************************************************************)
(* C16: the seion/dakuon table maps each syllable to the counterpart of    *)
(* its own row: reiterate_dakuon gives the dakuten form of an unvoiced     *)
(* syllable that has one (カ→ガ, ツ→ヅ, ハ→バ, ウ→ヴ, ワ→ヷ) and leaves a        *)
(* dakuten-voiced syllable unchanged; reiterate_seion gives the unvoiced   *)
(* base; reiterate_seion(reiterate_dakuon(x)) = reiterate_seion(x)         *)
(* wherever reiterate_dakuon succeeds.                                     *)
(***************************************************************************)
\* the unvoiced syllables that have a dakuten form, row by row
RowKa == {12459, 12461, 12463, 12465, 12467}    \* カ キ ク ケ コ
RowSa == {12469, 12471, 12473, 12475, 12477}    \* サ シ ス セ ソ
RowTa == {12479, 12481, 12484, 12486, 12488}    \* タ チ ツ テ ト
RowHa == {12495, 12498, 12501, 12504, 12507}    \* ハ ヒ フ ヘ ホ
RowWa == 12527..12530                           \* ワ ヰ ヱ ヲ
Unvoiced == RowKa \cup RowSa \cup RowTa \cup RowHa \cup RowWa \cup {12454}

\* the dakuten form as Unicode lays the rows out: ヴ for ウ, ヷ..ヺ for the
\* ワ row, the next code point elsewhere
Dakuten(x) ==
    IF x = 12454 THEN 12532 ELSE IF x \in RowWa THEN x + 8 ELSE x + 1

Voiced == {Dakuten(x) : x \in Unvoiced}
SeionOf(y) == CHOOSE x \in Unvoiced : Dakuten(x) = y

C16_RowCounterparts ==
    LET x == Head(k_in.reading)
    IN  /\ k_pc = "dakuon" /\ x \in Unvoiced => k_out = Some(Dakuten(x))
        /\ k_pc = "dakuon" /\ x \in Voiced => k_out = Some(x)
        /\ k_pc = "seion" /\ x \in Unvoiced => k_out = Some(x)
        /\ k_pc = "seion" /\ x \in Voiced => k_out = Some(SeionOf(x))
        /\ k_pc = "seion of dakuon" => k_norm = reiterate_seion(k_in.reading)

(***************************************************************************)
(* C17: in infer_decompositions with a non-empty kanji-table, title        *)
(* normalization rejects with Unconsidered every title that would make the *)
(* walk meet a character other than an ideograph, ヶ, or a character that   *)
(* try_consume_kana accepts as a cluster start or absorbs as a combining   *)
(* mark; the walk's unreachable!() is never reached.                       *)
(***************************************************************************)
\* scanning the title from its p-th character on as the walk scans it
\* (ignored characters aside), some character is none of the four kinds
RECURSIVE MeetsOther(_, _)
MeetsOther(title, p) ==
    IF p >= Len(title) THEN FALSE
    ELSE IF title_ignore(title[p + 1]) \/ is_ideograph(title[p + 1])
            \/ title[p + 1] \in {SmallKe, SmallKe - 96}
    THEN MeetsOther(title, p + 1)
    ELSE IF try_consume_kana(title, p + 1).some
    THEN MeetsOther(title, p + Len(try_consume_kana(title, p + 1).val))
    ELSE TRUE

TableAccepted ==
    /\ d_in.readings # <<>>
    /\ Len(d_in.alterations) <= Len(d_in.readings)
    /\ Len(d_in.omissions) <= Len(d_in.readings)

C17_OtherCharactersRejected ==
    Decided /\ TableAccepted /\ MeetsOther(d_in.title, 0) =>
        d_result = "Unconsidered"

(***************************************************************************)
(* C18: every pair FindTemplates emits belongs to its own "{{" opener: the *)
(* name is the text right after the opener up to its first "|" or "}}",    *)
(* the argument text starts right after that "|", and no opener gives more *)
(* than one pair (a "{{{"..."}}" sequence at depth zero never re-emits the *)
(* name and start of an earlier invocation).                               *)
(***************************************************************************)
\* where pat first occurs in d at or after character k (-1 if nowhere)
RECURSIVE FirstAt(_, _, _)
FirstAt(d, k, pat) ==
    IF k + Len(pat) > Len(d) THEN -1
    ELSE IF IsPrefixAt(d, k, pat) THEN k
    ELSE FirstAt(d, k + 1, pat)

\* the pair is one the "{{" at characters k, k + 1 of d can give
BelongsTo(d, k, pair) ==
    LET close == FirstAt(d, k + 2, <<RBRACE, RBRACE>>)
        bar == FirstAt(d, k + 2, <<PIPE>>)
    IN  /\ IsPrefixAt(d, k, <<LBRACE, LBRACE>>)
        /\ close # -1
        /\ IF bar # -1 /\ bar < close
           THEN /\ pair[1] = SubSeq(d, k + 3, bar)
                /\ Len(pair[2]) <= Len(d) - (bar + 1)
                /\ pair[2] = SubSeq(d, bar + 2, bar + 1 + Len(pair[2]))
           ELSE /\ pair[1] = SubSeq(d, k + 3, close)
                /\ pair[2] = <<>>

\* the pairs from the j-th on belong to openers at or after character from,
\* each to a later opener than the one before
RECURSIVE EachItsOwnOpener(_, _, _, _)
EachItsOwnOpener(d, items, j, from) ==
    \/ j > Len(items)
    \/ \E k \in from..(Len(d) - 2) :
          /\ BelongsTo(d, k, items[j])
          /\ EachItsOwnOpener(d, items, j + 1, k + 1)

C18_OwnOpener == EachItsOwnOpener(ft.s, ft_items, 1, 0)

(***************************************************************************)
(* C19: after any sequence of processed articles followed by redirect      *)
(* resolution, every ReadingInfo of the accumulation table has a non-empty *)
(* accents list or a decomposition (the final assertion of main never      *)
(* fails), and a decomposition stored for a (title, reading) is never      *)
(* overwritten by a later one.                                             *)
(***************************************************************************)
C19_Kept ==
    \A t \in DOMAIN m_info :
        \A r \in DOMAIN m_info[t].reading_infos :
            m_info[t].reading_infos[r].decomposition.some =>
                /\ t \in DOMAIN m_info'
                /\ r \in DOMAIN m_info'[t].reading_infos
                /\ m_info'[t].reading_infos[r].decomposition
                       = m_info[t].reading_infos[r].decomposition

C19_Accumulation ==
    /\ [](assertion(m_info) /\ m_pc # "aborted by the assertion")
    /\ [][C19_Kept]_vars

\* an article of 漢 with an accent and a decomposition, a redirect from 字
\* resolved into an entry of its own, and the assertion passed
C19_Witness ==
    /\ m_pc = "done"
    /\ DOMAIN m_info = MainTitles
    /\ <<KataKa>> \in DOMAIN m_info[<<28450>>].reading_infos
    /\ <<KataKa>> \in DOMAIN m_info[<<23383>>].reading_infos
    /\ m_info[<<28450>>].reading_infos[<<KataKa>>].accents = <<1>>
    /\ m_info[<<28450>>].reading_infos[<<KataKa>>].decomposition.some
    /\ m_info[<<23383>>].readings = {}
    /\ m_info[<<23383>>].reading_infos[<<KataKa>>]
           = ReadingInfo(<<>>, Some(<<Kana(<<KataKa>>)>>))

====
